---- MODULE Spec2Model ----
(***************************************************************************)
(* A model of the contour scanner and trimmer                              *)
(* (extensions/fablabchemnitz/contour_scanner_and_trimmer).                *)
(*                                                                         *)
(* Coordinates are integers on a small grid; a point is <<x, y>>.  The     *)
(* document is the set of path element ids it holds plus the trim groups   *)
(* the run creates; an element transform is a translation along x.         *)
(***************************************************************************)
EXTENDS Integers, Sequences, FiniteSets, TLC

VARIABLES
    so,                        \* self.options
    adjacencyPolicy,           \* the caller's wish: exclude polyline-adjacent shared endpoints
    pathElements,              \* the list get_path_elements returned
    docPaths,                  \* ids of the path elements that are in the document
    pc,                        \* position in effect
    pathIndex,                 \* `for pathElement in pathElements`
    subSplitLineArray,         \* the sub split lines collected so far
    selfIsects,                \* selfIntersectionPoints of the last subpath scanned
    selfIntersectingPaths,     \* ids of the paths whose isSelfIntersecting was True after
                               \* their subpaths (they get selfIntersectingPathStyle when
                               \* highlight_self_intersecting is set)
    globalIntersectionPoints,  \* MultiPoint of the global run, as a sequence
    subSplitIndex,             \* `for subSplitIndex in range(len(subSplitLineArray))`
    allTrimGroups,             \* the trim group elements, as effect collects them
    deleted,                   \* the trim lines delete() removed from their group
    msgs,                      \* what self.msg reported
    outcome,                   \* how the run stands: running, finished, reported or crashed
    breakApartPaths,           \* UnwindPaths.effect: what breakContours returned last
    elemGroups,                \* UnwindPaths.effect: ids of the groups added to the layer
    to_sort                    \* FilterByLengthArea.effect: the elements it selected

vars == <<so, adjacencyPolicy, pathElements, docPaths, pc, pathIndex, subSplitLineArray,
          selfIsects, selfIntersectingPaths, globalIntersectionPoints, subSplitIndex,
          allTrimGroups, deleted, msgs, outcome, breakApartPaths, elemGroups, to_sort>>

\* the variables of the other extensions, which effect of the contour scanner
\* does not have
otherVars == <<breakApartPaths, elemGroups, to_sort>>

NoOtherRun == breakApartPaths = <<>> /\ elemGroups = <<>> /\ to_sort = <<>>

----------------------------------------------------------------------------
(* Bounds of the model *)

MaxTrimLines == 3     \* trim lines, in all groups, handed to remove_duplicates
MaxCoord == 2         \* their end points are (0..MaxCoord, 0)
MaxCombineLines == 3  \* sub split lines whose trim lines are handed to combine_nonintersects
MaxX == 3             \* build_trim_line_group alone: the line lies on (0..MaxX, 0),
MaxIsects == 2        \*   with up to MaxIsects intersection points on (0..MaxX, 0..1)
MaxTolerance == 2     \*   and a snap tolerance of 0..MaxTolerance
MaxTranslate == 1     \*   and transforms that move 0..MaxTranslate along x
MaxPaths == 2         \* path elements of one run of effect
MaxChangedOptions == 2  \* options of a run that differ from their defaults

----------------------------------------------------------------------------
(* Sequences and Python's list operations *)

Range(s) == {s[i] : i \in 1..Len(s)}

InList(x, s) == \E i \in 1..Len(s) : s[i] = x

Reverse(s) == [i \in 1..Len(s) |-> s[Len(s) + 1 - i]]

Min(a, b) == IF a < b THEN a ELSE b

Max(a, b) == IF a > b THEN a ELSE b

\* s[:k] with Python's meaning of a negative k
PySlicePrefix(s, k) ==
    LET n == IF k >= 0 THEN Min(k, Len(s)) ELSE Max(Len(s) + k, 0)
    IN  SubSeq(s, 1, n)

RECURSIVE Flatten(_)
Flatten(ss) == IF ss = <<>> THEN <<>> ELSE Head(ss) \o Flatten(Tail(ss))

\* all sequences over S of length lo..hi
SeqsOf(S, lo, hi) == UNION {[1..n -> S] : n \in lo..hi}

----------------------------------------------------------------------------
(* Paths: an inkex Path is a list of commands, each a letter and a point *)

Cmd(letter, p) == [letter |-> letter, pt |-> p]

LinePath(a, b) == <<Cmd("M", a), Cmd("L", b)>>

\* a curve command, C or Q, to p; of its control points the model keeps via, the
\* point the curve bends to
CurveCmd(letter, via, p) == [letter |-> letter, pt |-> p, via |-> via]

IsCurve(c) == c.letter \in {"C", "Q"}

\* the ids of the trim lines: "<trimGroupId>-<subSplitIndex>", followed, for a line
\* that was cut, by intersectedVerb and a unique number
TrimLineId(gid, index, verb, n) == [group |-> gid, index |-> index, verb |-> verb, n |-> n]

TrimLine(id, a, b, style) ==
    [id |-> id, path |-> LinePath(a, b), intersected |-> FALSE, style |-> style,
     merged |-> <<id>>]

TrimGroup(gid, children, originalPathId) ==
    [id |-> gid, children |-> children, inDoc |-> TRUE, originalPathId |-> originalPathId]

----------------------------------------------------------------------------
(* remove_duplicates *)

\* `element.path not in totalTrimPaths`: list membership by Path equality, which
\* compares the commands and their arguments one by one
\* a comparison that looks at the end point of the path only
PathInByEndPoint(path, totalTrimPaths) ==
    \E k \in 1..Len(totalTrimPaths) : totalTrimPaths[k][Len(totalTrimPaths[k])].pt = path[Len(path)].pt

PathIn(path, totalTrimPaths) == InList(path, totalTrimPaths)

\* a loop over a list that shifts under it: the element after a deleted one is
\* not looked at
RECURSIVE DedupGroupSkipsNext(_, _, _, _)
DedupGroupSkipsNext(children, kept, total, gone) ==
    IF children = <<>>
    THEN [kept |-> kept, total |-> total, gone |-> gone]
    ELSE LET element == Head(children)
         IN  IF ~PathIn(element.path, total)
             THEN DedupGroupSkipsNext(Tail(children), Append(kept, element),
                                      Append(total, element.path), gone)
             ELSE IF Len(children) = 1
             THEN [kept |-> kept, total |-> total, gone |-> gone \cup {element}]
             ELSE DedupGroupSkipsNext(Tail(Tail(children)), Append(kept, children[2]),
                                      total, gone \cup {element})

\* one trim group: `for element in trimGroup`; the iterator holds the next sibling,
\* so deleting the current element skips nothing
RECURSIVE DedupGroup(_, _, _, _)
DedupGroup(children, kept, total, gone) ==
    IF children = <<>>
    THEN [kept |-> kept, total |-> total, gone |-> gone]
    ELSE LET element == Head(children)
         IN  IF ~PathIn(element.path, total)
             THEN DedupGroup(Tail(children), Append(kept, element),
                             Append(total, element.path), gone)
             ELSE DedupGroup(Tail(children), kept, total, gone \cup {element})

\* a visit that leaves the emptied group in the document
RECURSIVE DedupVisitKeepsEmptied(_, _, _, _)
DedupVisitKeepsEmptied(groups, order, total, gone) ==
    IF order = <<>>
    THEN [groups |-> groups, gone |-> gone]
    ELSE LET g == Head(order)
             r == DedupGroup(groups[g].children, <<>>, total, gone)
         IN  DedupVisitKeepsEmptied([groups EXCEPT ![g].children = r.kept],
                                    Tail(order), r.total, r.gone)

\* the groups in visiting order `order` (indices into groups)
RECURSIVE DedupVisit(_, _, _, _)
DedupVisit(groups, order, total, gone) ==
    IF order = <<>>
    THEN [groups |-> groups, gone |-> gone]
    ELSE LET g  == Head(order)
             r  == DedupGroup(groups[g].children, <<>>, total, gone)
             empty == Len(r.kept) = 0
             g2 == [groups[g] EXCEPT !.children = r.kept,
                                     !.inDoc = IF empty THEN FALSE ELSE @]
         IN  DedupVisit([groups EXCEPT ![g] = g2], Tail(order), r.total, r.gone)

\* a visiting order that leaves the [::-1] out
VisitOrderForwardOnly(groups, reverse_removal_order) == [i \in 1..Len(groups) |-> i]

VisitOrder(groups, reverse_removal_order) ==
    LET forward == [i \in 1..Len(groups) |-> i]
    IN  IF reverse_removal_order THEN Reverse(forward) ELSE forward

\* the caller's list keeps its order and its members: [::-1] makes a copy
RemoveDuplicates(groups, reverse_removal_order) ==
    DedupVisit(groups, VisitOrder(groups, reverse_removal_order), <<>>, {})

----------------------------------------------------------------------------
(* combine_nonintersects *)

Style(kind, of) == [kind |-> kind, of |-> of]

\* a newPathData that takes every command of segData
CollapseNothing(segData) == segData

\* newPathData: a command is dropped when its coordinates equal those of the command
\* right before it in segData
CollapseRepeated(segData) ==
    LET keep == {z \in 1..Len(segData) : z = 1 \/ segData[z].pt # segData[z - 1].pt}
        RECURSIVE Pick(_)
        Pick(z) == IF z > Len(segData) THEN <<>>
                   ELSE IF z \in keep THEN <<segData[z]>> \o Pick(z + 1) ELSE Pick(z + 1)
    IN  Pick(1)

\* `if intersectedVerb not in pId`
HasIntersectedVerb(pId) == pId.verb

\* a loop that leaves the test for intersectedVerb out and merges every piece
RECURSIVE CombineLoopMergesAll(_, _)
CombineLoopMergesAll(children, st) ==
    IF children = <<>> THEN st
    ELSE LET pElement == Head(children)
         IN  IF st.first = 0
             THEN CombineLoopMergesAll(Tail(children),
                    [st EXCEPT !.kept = Append(@, pElement),
                               !.first = Len(st.kept) + 1,
                               !.data = pElement.path,
                               !.merged = pElement.merged])
             ELSE CombineLoopMergesAll(Tail(children),
                    [st EXCEPT !.data = @ \o pElement.path,
                               !.merged = @ \o pElement.merged,
                               !.gone = @ \cup {pElement}])

\* the loop over one trim group: st.first is the position (in kept) of combinedPath,
\* 0 while combinedPath is None
RECURSIVE CombineLoop(_, _)
CombineLoop(children, st) ==
    IF children = <<>> THEN st
    ELSE LET pElement == Head(children)
         IN  IF ~HasIntersectedVerb(pElement.id)
             THEN IF st.first = 0
                  THEN CombineLoop(Tail(children),
                         [st EXCEPT !.kept = Append(@, pElement),
                                    !.first = Len(st.kept) + 1,
                                    !.data = pElement.path,
                                    !.merged = pElement.merged])
                  ELSE CombineLoop(Tail(children),
                         [st EXCEPT !.data = @ \o pElement.path,
                                    !.merged = @ \o pElement.merged,
                                    !.gone = @ \cup {pElement}])
             ELSE CombineLoop(Tail(children),
                         [st EXCEPT !.kept = Append(@, pElement),
                                    !.totalIntersectionsAtPath = @ + 1])

CombineGroup(trimGroup, apply_style_to_trimmed) ==
    LET st == CombineLoop(trimGroup.children,
                  [kept |-> <<>>, first |-> 0, data |-> <<>>, merged |-> <<>>,
                   gone |-> {}, totalIntersectionsAtPath |-> 0])
        combinedPath ==
            [st.kept[st.first] EXCEPT
                !.path = CollapseRepeated(st.data),
                !.merged = st.merged,
                !.style = IF apply_style_to_trimmed THEN @
                          ELSE IF st.totalIntersectionsAtPath = 0
                               THEN Style("nonintersected", <<>>)
                               ELSE Style("combined", <<>>)]
    IN  [group |-> IF Len(st.data) > 0
                   THEN [trimGroup EXCEPT !.children = [st.kept EXCEPT ![st.first] = combinedPath]]
                   ELSE trimGroup,
         gone |-> st.gone]

\* every group of the list is visited, also one remove_duplicates took out of the document
CombineNonintersects(groups, apply_style_to_trimmed) ==
    [groups |-> [g \in 1..Len(groups) |-> CombineGroup(groups[g], apply_style_to_trimmed).group],
     gone |-> UNION {CombineGroup(groups[g], apply_style_to_trimmed).gone : g \in 1..Len(groups)}]

----------------------------------------------------------------------------
(* Plane geometry on the grid, in integers.  A squared distance that is a     *)
(* fraction is the pair <<numerator, denominator>>.                           *)

Sq(x) == x * x

Dist2(p, q) == Sq(p[1] - q[1]) + Sq(p[2] - q[2])

Cross(s, e, p) == (e[1] - s[1]) * (p[2] - s[2]) - (e[2] - s[2]) * (p[1] - s[1])

Dot(s, e, p) == (e[1] - s[1]) * (p[1] - s[1]) + (e[2] - s[2]) * (p[2] - s[2])

\* p lies on the closed segment s-e
OnSegment(p, s, e) ==
    /\ Cross(s, e, p) = 0
    /\ Dot(s, e, p) >= 0
    /\ Dot(s, e, p) <= Dist2(s, e)

\* squared distance of p from the segment s-e
SegDist2(p, s, e) ==
    IF Dot(s, e, p) <= 0 THEN <<Dist2(p, s), 1>>
    ELSE IF Dot(s, e, p) >= Dist2(s, e) THEN <<Dist2(p, e), 1>>
    ELSE <<Sq(Cross(s, e, p)), Dist2(s, e)>>

RatLess(r, t) == r[1] * t[2] < t[1] * r[2]

----------------------------------------------------------------------------
(* shapely.ops.snap(LineString, MultiPoint, tolerance) and                    *)
(* shapely.ops.split(LineString, MultiPoint)                                  *)

\* what an end vertex of the line may be moved to: a snap point closer than the
\* tolerance (which of several, the library's version decides), else it stays
SnapVertexChoices(v, pts, tolerance) ==
    LET near == {p \in Range(pts) : Dist2(p, v) < Sq(tolerance)}
    IN  IF near = {} THEN {v} ELSE near

InsertAt(s, i, x) == SubSeq(s, 1, i - 1) \o <<x>> \o SubSeq(s, i, Len(s))

\* the snap points are then inserted, one after the other, into the segment of the
\* line they are closest to, when that is closer than the tolerance; a snap point
\* that is a vertex of the line already is not inserted
RECURSIVE SnapSegments(_, _, _)
SnapSegments(coords, pts, tolerance) ==
    IF pts = <<>> THEN coords
    ELSE LET p    == Head(pts)
             d(i) == SegDist2(p, coords[i], coords[i + 1])
             cand == {i \in 1..(Len(coords) - 1) : RatLess(d(i), <<Sq(tolerance), 1>>)}
             best == CHOOSE i \in cand :
                        \A j \in cand : ~RatLess(d(j), d(i)) /\ (RatLess(d(i), d(j)) \/ i <= j)
         IN  IF InList(p, coords) \/ cand = {}
             THEN SnapSegments(coords, Tail(pts), tolerance)
             ELSE SnapSegments(InsertAt(coords, best + 1, p), Tail(pts), tolerance)

\* the line snapped to the points, its end vertices moved to a and b
Snap(a, b, pts, tolerance) == SnapSegments(<<a, b>>, pts, tolerance)

\* one chunk split at one point: only a point in the interior of the chunk splits it
SplitLineWithPoint(chunk, pt) ==
    LET on == {i \in 1..(Len(chunk) - 1) : OnSegment(pt, chunk[i], chunk[i + 1])}
        i  == CHOOSE k \in on : \A j \in on : k <= j
    IN  IF on = {} \/ pt = chunk[1] \/ pt = chunk[Len(chunk)]
        THEN <<chunk>>
        ELSE IF pt = chunk[i + 1]
             THEN <<SubSeq(chunk, 1, i + 1), SubSeq(chunk, i + 1, Len(chunk))>>
             ELSE <<SubSeq(chunk, 1, i) \o <<pt>>, <<pt>> \o SubSeq(chunk, i + 1, Len(chunk))>>

RECURSIVE SplitChunks(_, _)
SplitChunks(chunks, pt) ==
    IF chunks = <<>> THEN <<>>
    ELSE SplitLineWithPoint(Head(chunks), pt) \o SplitChunks(Tail(chunks), pt)

\* split by a MultiPoint: by each of its points in turn, every chunk so far
RECURSIVE Split(_, _)
Split(chunks, pts) ==
    IF pts = <<>> THEN chunks ELSE Split(SplitChunks(chunks, Head(pts)), Tail(pts))

----------------------------------------------------------------------------
(* poly_point_isect.isect_segments(segments, validate): the points where two   *)
(* segments of the list meet.  A segment is <<start, end>>.                   *)

\* the grid points two segments have in common
CommonPoints(s, t) ==
    {p \in {<<x, y>> : x \in Min(s[1][1], s[2][1])..Max(s[1][1], s[2][1]),
                       y \in Min(s[1][2], s[2][2])..Max(s[1][2], s[2][2])} :
        OnSegment(p, s[1], s[2]) /\ OnSegment(p, t[1], t[2])}

\* two segments chained at p as consecutive pieces of a polyline are: one ends
\* where the other starts
Chained(s, t, p) == (s[2] = p /\ t[1] = p) \/ (t[2] = p /\ s[1] = p)

\* what a pair of segments reports: the crossing point, or the end points of the
\* run two collinear segments share; with validate, not the vertex at which the two
\* are chained when that is all they share
PairIsects(s, t, validate) ==
    LET common == CommonPoints(s, t)
        ends   == {s[1], s[2], t[1], t[2]}
    IN  IF Cardinality(common) > 1
        THEN common \cap ends
        ELSE {p \in common : ~(validate /\ Chained(s, t, p))}

IsectSegments(segments, validate) ==
    UNION {PairIsects(segments[pair[1]], segments[pair[2]], validate) :
              pair \in {q \in (1..Len(segments)) \X (1..Len(segments)) : q[1] < q[2]}}

\* the order in which a point set is listed: by x, then by y
PointBefore(p, q) == p[1] < q[1] \/ (p[1] = q[1] /\ p[2] < q[2])

RECURSIVE SortedPoints(_)
SortedPoints(S) ==
    IF S = {} THEN <<>>
    ELSE LET m == CHOOSE p \in S : \A q \in S \ {p} : PointBefore(p, q)
         IN  <<m>> \o SortedPoints(S \ {m})

----------------------------------------------------------------------------
(* Ids.  An id is a sequence of tokens; a path id is a sequence of characters. *)

idPrefix == "subsplit"

\* "{}-{}_{}".format(idPrefix, originalPathId, i)
SubSplitId(originalPathId, i) == <<idPrefix, "-">> \o originalPathId \o <<"_", ToString(i)>>

\* id.split(sep)[0]
BeforeFirst(id, sep) ==
    LET at == {k \in 1..Len(id) : id[k] = sep}
    IN  IF at = {} THEN id
        ELSE SubSeq(id, 1, (CHOOSE k \in at : \A m \in at : k <= m) - 1)

\* id.split(idPrefix + "-")[1], for an id that holds the prefix once
AfterPrefix(id) ==
    LET k == CHOOSE m \in 1..(Len(id) - 1) :
                 /\ id[m] = idPrefix /\ id[m + 1] = "-"
                 /\ \A n \in 1..(m - 1) : ~(id[n] = idPrefix /\ id[n + 1] = "-")
    IN  SubSeq(id, k + 2, Len(id))

\* a group id that keeps the number of the sub split line
TrimGroupIdOfLine(subSplitId) == <<"shapely", "-">> \o subSplitId

TrimGroupId(subSplitId) == <<"shapely", "-">> \o BeforeFirst(subSplitId, "_")

TrimGroupParentId(subSplitId) == BeforeFirst(AfterPrefix(subSplitId), "_")

----------------------------------------------------------------------------
(* build_trim_line_group *)

\* path.transform(t) for the translation t along x; -t is its inverse
Translate(pt, t) == <<pt[1] + t, pt[2]>>

\* composed_transform(): the transforms of the parents and the element's own
ComposedTransform(pathElement) == pathElement.parentTransform + pathElement.transform

StartOf(line) == line.path[1].pt

EndOf(line) == line.path[2].pt

\* the call returns at once for a path of the type that is not to be trimmed
SkipsTrimming(line, trimming_path_types) ==
    \/ trimming_path_types = "open_paths" /\ line.originalPathIsClosed
    \/ trimming_path_types = "closed_paths" /\ ~line.originalPathIsClosed

\* self.svg.getElementById: the path elements of that id the document holds
GetElementById(elements, doc, id) ==
    SelectSeq(elements, LAMBDA e : e.id = id /\ e.id \in doc)

\* find_group: the position of the document's group of that id, 0 for None
FindGroup(groups, groupId) ==
    LET at == {g \in 1..Len(groups) : groups[g].inDoc /\ groups[g].id = groupId}
    IN  IF at = {} THEN 0 ELSE CHOOSE g \in at : \A h \in at : g <= h

\* a loop that gives the verb to the second chunk and the ones after it, and
\* leaves the id of the chunk before as it was
TrimLinesOfKeepsPrevId(trimLines, trimGroupId, index, style, trimGroupParentTransform) ==
    [j \in 1..Len(trimLines) |->
        [TrimLine(TrimLineId(trimGroupId, index, j > 1, IF j > 1 THEN j ELSE 0),
                  Translate(trimLines[j][1], -trimGroupParentTransform),
                  Translate(trimLines[j][2], -trimGroupParentTransform), style)
         EXCEPT !.intersected = j < Len(trimLines)]]

\* the trim lines of one sub split line: chunk j of the split becomes the line of
\* its first two coordinates; from the second chunk on, the chunk and the one
\* before it get the intersected verb in their id, the one before it the flag
TrimLinesOf(trimLines, trimGroupId, index, style, trimGroupParentTransform) ==
    [j \in 1..Len(trimLines) |->
        [TrimLine(TrimLineId(trimGroupId, index, Len(trimLines) > 1,
                             IF Len(trimLines) > 1 THEN j ELSE 0),
                  Translate(trimLines[j][1], -trimGroupParentTransform),
                  Translate(trimLines[j][2], -trimGroupParentTransform), style)
         EXCEPT !.intersected = j < Len(trimLines)]]

\* the lines split for sub split line `index`, its end points snapped to a and b
TrimLinesFor(line, index, a, b, pts, options, trimGroupParent) ==
    TrimLinesOf(Split(<<Snap(a, b, pts, options.snap_tolerance)>>, pts),
                TrimGroupId(line.id), index,
                IF options.apply_style_to_trimmed THEN line.originalPathStyle
                ELSE Style("trimmed", <<>>),
                ComposedTransform(trimGroupParent))

\* the groups after the call: the trim lines are added to the group of the
\* trimGroupId, which is made (and collected by effect) when there is none
AddToTrimGroup(groups, line, lines) ==
    LET gid == TrimGroupId(line.id)
        g   == FindGroup(groups, gid)
    IN  IF g = 0
        THEN Append(groups, TrimGroup(gid, lines, line.originalPathId))
        ELSE [groups EXCEPT ![g].children = @ \o lines,
                            ![g].originalPathId = line.originalPathId]

----------------------------------------------------------------------------
(* effect: the scan of one path element *)

\* the sub paths of a path: it is cut before every M that is not its first command
RECURSIVE SubPathsOf(_)
SubPathsOf(raw) ==
    IF raw = <<>> THEN <<>>
    ELSE LET later == {i \in 2..Len(raw) : raw[i].letter = "M"}
             cut   == IF later = {} THEN Len(raw) + 1
                      ELSE CHOOSE i \in later : \A j \in later : i <= j
         IN  <<SubSeq(raw, 1, cut - 1)>> \o SubPathsOf(SubSeq(raw, cut, Len(raw)))

\* the point a command goes to: that of a lower case command is counted from
\* the node before it
NodeOf(c, nodes) ==
    IF c.letter \in {"m", "l"} /\ nodes # <<>>
    THEN <<nodes[Len(nodes)][1] + c.pt[1], nodes[Len(nodes)][2] + c.pt[2]>>
    ELSE c.pt

\* CubicSuperPath(subPath): one node per M and L, and for Z the first node again
RECURSIVE CspNodes(_, _)
CspNodes(subPath, nodes) ==
    IF subPath = <<>> THEN nodes
    ELSE LET c == Head(subPath)
         IN  IF c.letter \in {"Z", "z"}
             THEN CspNodes(Tail(subPath), IF nodes = <<>> THEN nodes ELSE Append(nodes, nodes[1]))
             ELSE CspNodes(Tail(subPath), Append(nodes, NodeOf(c, nodes)))

\* the path is closed: its last command is Z, or an L to the point of its first
IsClosedPath(raw) ==
    \/ raw[Len(raw)].letter = "Z"
    \/ raw[Len(raw)].letter \in {"L", "C"} /\ raw[1].pt = raw[Len(raw)].pt

\* the command letters effect looks for in str(path)
RelCmds == {"m", "l", "h", "v", "c", "s", "q", "t", "a", "z"}

AbsCmds == {"M", "L", "H", "V", "C", "S", "Q", "T", "A", "Z"}

HasRelCmd(raw) == \E i \in 1..Len(raw) : raw[i].letter \in RelCmds

HasAbsCmd(raw) == \E i \in 1..Len(raw) : raw[i].letter \in AbsCmds

IsRelativePath(raw) == HasRelCmd(raw) /\ ~HasAbsCmd(raw)

IsAbsolutePath(raw) == HasAbsCmd(raw) /\ ~HasRelCmd(raw)

IsMixedPath(raw) == HasRelCmd(raw) /\ HasAbsCmd(raw)

\* `'c' in str(path) or 'C' in str(path)`
IsBezierPath(raw) == \E i \in 1..Len(raw) : raw[i].letter \in {"c", "C"}

\* the path is deleted and skipped by one of the remove options of the scan
FilteredOut(pathElement, options) ==
    \/ options.remove_absolute /\ IsAbsolutePath(pathElement.d)
    \/ options.remove_relative /\ IsRelativePath(pathElement.d)
    \/ options.remove_mixed /\ IsMixedPath(pathElement.d)
    \/ options.remove_beziers /\ IsBezierPath(pathElement.d)
    \/ options.remove_polylines /\ ~IsBezierPath(pathElement.d)
    \/ options.remove_opened /\ ~IsClosedPath(pathElement.d)
    \/ options.remove_closed /\ IsClosedPath(pathElement.d)

\* bezier.cspsubdiv halves a curve as long as its control points are farther
\* from its chord than flatness; the halves of the curves here are as flat as
\* any flatness above 0 asks for
FlatEnough(from, c, flatness) ==
    /\ flatness >= 0
    /\ ~RatLess(<<Sq(flatness), 1>>, SegDist2(c.via, from, c.pt))

\* cspsubdiv does not come to an end: below 0 no segment is flat enough, at 0 no
\* curve that bends is
NeverFlat(subPath, flatness) ==
    \/ flatness < 0 /\ Len(CspNodes(subPath, <<>>)) > 1
    \/ flatness = 0 /\ \E i \in 2..Len(subPath) :
                           /\ IsCurve(subPath[i])
                           /\ Cross(subPath[i - 1].pt, subPath[i].pt, subPath[i].via) # 0

\* the nodes of the flattened subpath: a curve that is not flat enough gets the
\* node it bends to
RECURSIVE FlattenedNodes(_, _, _)
FlattenedNodes(subPath, nodes, flatness) ==
    IF subPath = <<>> THEN nodes
    ELSE LET c == Head(subPath)
         IN  IF c.letter \in {"Z", "z"}
             THEN FlattenedNodes(Tail(subPath),
                      IF nodes = <<>> THEN nodes ELSE Append(nodes, nodes[1]), flatness)
             ELSE IF IsCurve(c) /\ nodes # <<>> /\ ~FlatEnough(nodes[Len(nodes)], c, flatness)
             THEN FlattenedNodes(Tail(subPath), nodes \o <<c.via, c.pt>>, flatness)
             ELSE FlattenedNodes(Tail(subPath), Append(nodes, NodeOf(c, nodes)), flatness)

\* segs: the nodes of the subpath, flattened when the path is a bezier path
SegsOf(subPath, isBezier, options) ==
    IF options.flattenbezier /\ isBezier
    THEN FlattenedNodes(subPath, <<>>, options.flatness)
    ELSE CspNodes(subPath, <<>>)

\* adjust_style: fill none, the stroke set
AdjustStyle(style) == [style EXCEPT !.kind = "adjusted"]

SubSplitLine(pathElement, i, a, b, isClosed, isBezier) ==
    [id |-> SubSplitId(pathElement.id, i),
     path |-> LinePath(Translate(a, -pathElement.parentTransform),
                       Translate(b, -pathElement.parentTransform)),
     originalPathId |-> pathElement.id,
     originalPathIsClosed |-> isClosed,
     originalPathIsBezier |-> isBezier,
     originalPathStyle |-> pathElement.style]

\* one turn of `for subPath in subPaths`; st is the state of the scan, fault the
\* error the intersector raises in this turn's run ("" for none)
ScanSubPath(pathElement, subPath, st, fault, options) ==
    LET segs  == SegsOf(subPath, st.isBezier, options)
        lines == [i \in 1..(Len(segs) - 1) |->
                    SubSplitLine(pathElement, i - 1, segs[i], segs[i + 1],
                                 st.isClosed, st.isBezier)]
        subSplitLines == [i \in 1..(Len(segs) - 1) |-> <<segs[i], segs[i + 1]>>]
        array == st.array \o lines
        selfIntersectionPoints == IsectSegments(subSplitLines, TRUE)
    IN  IF options.flattenbezier /\ st.isBezier /\ NeverFlat(subPath, options.flatness)
        THEN [st EXCEPT !.raised = "MemoryError", !.at = "cspsubdiv"]
        ELSE IF fault # ""
        THEN [st EXCEPT !.array = array, !.raised = fault]
        ELSE IF selfIntersectionPoints # {} /\ options.remove_self_intersecting
        THEN [st EXCEPT !.array = PySlicePrefix(array, Len(array) - Len(segs) - 1),
                        !.doc = @ \ {pathElement.id},
                        !.isSelfIntersecting = TRUE,
                        !.points = selfIntersectionPoints]
        ELSE [st EXCEPT !.array = array,
                        !.isSelfIntersecting = selfIntersectionPoints # {},
                        !.points = selfIntersectionPoints]

RECURSIVE ScanSubPaths(_, _, _, _, _, _)
ScanSubPaths(pathElement, subPaths, k, st, fault, options) ==
    IF k > Len(subPaths) \/ st.raised # "" THEN st
    ELSE ScanSubPaths(pathElement, subPaths, k + 1,
             ScanSubPath(pathElement, subPaths[k], st,
                         IF fault.at = k THEN fault.error ELSE "", options),
             fault, options)

\* a turn that deletes the path a remove option names and goes on to scan it
ScanPathWithoutContinue(pathElement, array, doc, fault, options) ==
    ScanSubPaths(pathElement, SubPathsOf(pathElement.d), 1,
                 [array |-> array,
                  doc |-> IF FilteredOut(pathElement, options) THEN doc \ {pathElement.id} ELSE doc,
                  raised |-> "", at |-> "self-intersection run",
                  isSelfIntersecting |-> FALSE, points |-> {},
                  isClosed |-> IsClosedPath(pathElement.d),
                  isBezier |-> IsBezierPath(pathElement.d)],
                 fault, options)

\* one turn of `for pathElement in pathElements`
ScanPath(pathElement, array, doc, fault, options) ==
    LET st == [array |-> array, doc |-> doc, raised |-> "", at |-> "self-intersection run",
               isSelfIntersecting |-> FALSE, points |-> {},
               isClosed |-> IsClosedPath(pathElement.d),
               isBezier |-> IsBezierPath(pathElement.d)]
    IN  IF FilteredOut(pathElement, options)
        THEN [st EXCEPT !.doc = @ \ {pathElement.id}]
        ELSE ScanSubPaths(pathElement, SubPathsOf(pathElement.d), 1, st, fault, options)

\* the errors a run of the intersector may end with: a sweep over two segments or
\* more may raise the AssertionError or the KeyError of an inconsistent sweep
IsectErrors == {"AssertionError", "KeyError"}

NoFault == [at |-> 0, error |-> ""]

ScanFaults(pathElement) ==
    {NoFault} \cup
    {[at |-> k, error |-> e] :
        k \in {k \in 1..Len(SubPathsOf(pathElement.d)) :
                  Len(CspNodes(SubPathsOf(pathElement.d)[k], <<>>)) > 2},
        e \in IsectErrors}

----------------------------------------------------------------------------
(* effect, step by step *)

Running == [kind |-> "running", error |-> "", at |-> ""]

Finished == [kind |-> "finished", error |-> "", at |-> ""]

\* the except clause of effect caught the error and reported it
Reported(error, at) == [kind |-> "reported", error |-> error, at |-> at]

\* the error left effect uncaught
Crashed(error, at) == [kind |-> "crashed", error |-> error, at |-> at]

\* `for pathElement in pathElements`: one path element, all its sub paths
\* break_contours keeps a subpath of more than one command whose first two nodes
\* differ ("avoids pointy paths")
KeepsSubPathLongerThanOne(subPath) == Len(subPath) > 1

KeepsSubPath(subPath) ==
    /\ Len(subPath) > 1
    /\ CspNodes(subPath, <<>>)[1] # CspNodes(subPath, <<>>)[2]

\* `for subPath in subPaths` of break_contours: a copy of the element for each
\* subpath it keeps, with the subpath as its path and the id oldId + str(idSuffix)
RECURSIVE BreakSubPaths(_, _, _)
BreakSubPaths(element, subPaths, idSuffix) ==
    IF subPaths = <<>> THEN <<>>
    ELSE IF KeepsSubPath(Head(subPaths))
    THEN <<[element EXCEPT !.d = Head(subPaths),
                           !.id = Append(element.id, ToString(idSuffix))]>>
         \o BreakSubPaths(element, Tail(subPaths), idSuffix + 1)
    ELSE BreakSubPaths(element, Tail(subPaths), idSuffix)

BreakContours(element) == BreakSubPaths(element, SubPathsOf(element.d), 0)

\* get_path_elements: the paths of the document, broken apart when break_apart is set
GetPathElements(elements, options) ==
    IF options.break_apart
    THEN Flatten([i \in 1..Len(elements) |-> BreakContours(elements[i])])
    ELSE elements

\* `pathElements = self.get_path_elements()`; before it, pathElements holds the
\* paths of the document
GetPathElementsStep ==
    /\ pc = "get_path_elements"
    /\ outcome = Running
    /\ pathElements' = GetPathElements(pathElements, so)
    /\ docPaths' = {pathElements'[i].id : i \in 1..Len(pathElements')}
    /\ pc' = IF pathElements' = <<>> THEN "global" ELSE "scan"
    /\ UNCHANGED <<so, adjacencyPolicy, pathIndex, subSplitLineArray, selfIsects,
                   selfIntersectingPaths, globalIntersectionPoints, subSplitIndex,
                   allTrimGroups, deleted, msgs>>
    /\ UNCHANGED outcome
    /\ UNCHANGED otherVars

\* a loop over the paths that is left after its first turn
AfterScanOfFirst(index, n) == "global"

\* where effect stands after the turn for path `index` of n: the global run comes
\* when `for pathElement in pathElements` is through
AfterScan(index, n) == IF index = n THEN "global" ELSE "scan"

ScanPathStep ==
    /\ pc = "scan"
    /\ outcome = Running
    /\ pathIndex <= Len(pathElements)
    /\ \E fault \in ScanFaults(pathElements[pathIndex]) :
          LET r == ScanPath(pathElements[pathIndex], subSplitLineArray, docPaths, fault, so)
              filtered == FilteredOut(pathElements[pathIndex], so)
          IN  /\ subSplitLineArray' = r.array
              /\ docPaths' = r.doc
              /\ selfIsects' = IF filtered THEN selfIsects ELSE r.points
              /\ selfIntersectingPaths' =
                    IF r.raised = "" /\ r.isSelfIntersecting
                    THEN selfIntersectingPaths \cup {pathElements[pathIndex].id}
                    ELSE selfIntersectingPaths
              /\ pathElements' =
                    IF r.raised = "" /\ ~filtered /\ so.removefillsetstroke
                    THEN [pathElements EXCEPT ![pathIndex].style = AdjustStyle(@)]
                    ELSE pathElements
              /\ outcome' = IF r.raised # "" THEN Crashed(r.raised, r.at) ELSE outcome
              /\ pathIndex' = IF r.raised # "" THEN pathIndex ELSE pathIndex + 1
              /\ pc' = IF r.raised = "" THEN AfterScan(pathIndex, Len(pathElements)) ELSE pc
    /\ UNCHANGED <<so, adjacencyPolicy, globalIntersectionPoints,
                   subSplitIndex, allTrimGroups, deleted, msgs>>
    /\ UNCHANGED otherVars

SegmentOf(line) == <<StartOf(line), EndOf(line)>>

\* a run that goes on to trim whatever the global run returned
AfterGlobalRunAlwaysTrims(points) == "split"

\* `if len(globalIntersectionPoints) > 0`: with no point, effect returns
AfterGlobalRun(points) == IF points = <<>> THEN "done" ELSE "split"

\* the global run, inside `try`; with no point found nothing else is done
GlobalIntersectStep ==
    /\ pc = "global"
    /\ outcome = Running
    /\ \E error \in {""} \cup (IF so.draw_trimmed /\ Len(subSplitLineArray) > 1
                               THEN IsectErrors ELSE {}) :
          LET allSubSplitLineStrings ==
                  [i \in 1..Len(subSplitLineArray) |-> SegmentOf(subSplitLineArray[i])]
              points == SortedPoints(IsectSegments(allSubSplitLineStrings, TRUE))
          IN  IF ~so.draw_trimmed
              THEN /\ outcome' = Finished
                   /\ pc' = "done"
                   /\ UNCHANGED <<globalIntersectionPoints, msgs>>
              ELSE IF error = "AssertionError"
              THEN /\ outcome' = Reported(error, "global run")
                   /\ msgs' = msgs \cup {"Error calculating global intersections"}
                   /\ pc' = "done"
                   /\ UNCHANGED globalIntersectionPoints
              ELSE IF error # ""
              THEN /\ outcome' = Crashed(error, "global run")
                   /\ UNCHANGED <<globalIntersectionPoints, msgs, pc>>
              ELSE /\ globalIntersectionPoints' = points
                   /\ outcome' = IF AfterGlobalRun(points) = "done" THEN Finished ELSE outcome
                   /\ pc' = AfterGlobalRun(points)
                   /\ UNCHANGED msgs
    /\ UNCHANGED <<so, adjacencyPolicy, selfIntersectingPaths, pathElements, docPaths, pathIndex,
                   subSplitLineArray, selfIsects, subSplitIndex, allTrimGroups, deleted>>
    /\ UNCHANGED otherVars

\* the message of effect when the trimming made no trim group
NoTrimGroupsMessage == "You selected to draw trimmed lines but no intersections could be calculated."

\* `for subSplitIndex in range(len(subSplitLineArray))`: build_trim_line_group for
\* one sub split line; subSplitIndex counts from 1 here, the ids count from 0
BuildTrimLineGroupStep ==
    /\ pc = "split"
    /\ outcome = Running
    /\ subSplitIndex <= Len(subSplitLineArray)
    /\ LET line == subSplitLineArray[subSplitIndex]
           last == subSplitIndex = Len(subSplitLineArray)
       IN  \E a \in SnapVertexChoices(StartOf(line), globalIntersectionPoints, so.snap_tolerance),
              b \in SnapVertexChoices(EndOf(line), globalIntersectionPoints, so.snap_tolerance) :
              IF SkipsTrimming(line, so.trimming_path_types)
              THEN /\ UNCHANGED <<allTrimGroups, outcome>>
                   /\ subSplitIndex' = subSplitIndex + 1
                   /\ pc' = IF last THEN "remove_duplicates" ELSE pc
                   /\ msgs' = IF last /\ allTrimGroups = <<>>
                              THEN msgs \cup {NoTrimGroupsMessage} ELSE msgs
              ELSE IF GetElementById(pathElements, docPaths, TrimGroupParentId(line.id)) = <<>>
              THEN /\ outcome' = Crashed("AttributeError", "build_trim_line_group")
                   /\ UNCHANGED <<allTrimGroups, subSplitIndex, pc, msgs>>
              ELSE /\ allTrimGroups' = AddToTrimGroup(allTrimGroups, line,
                          TrimLinesFor(line, subSplitIndex - 1, a, b,
                                       globalIntersectionPoints, so,
                                       GetElementById(pathElements, docPaths,
                                                      TrimGroupParentId(line.id))[1]))
                   /\ subSplitIndex' = subSplitIndex + 1
                   /\ pc' = IF last THEN "remove_duplicates" ELSE pc
                   /\ UNCHANGED <<outcome, msgs>>
    /\ UNCHANGED <<so, adjacencyPolicy, selfIntersectingPaths, pathElements, docPaths, pathIndex,
                   subSplitLineArray, selfIsects, globalIntersectionPoints, deleted>>
    /\ UNCHANGED otherVars

\* `if so.remove_duplicates is True: self.remove_duplicates(allTrimGroups)`
RemoveDuplicatesStep ==
    /\ pc = "remove_duplicates"
    /\ outcome = Running
    /\ LET r == RemoveDuplicates(allTrimGroups, so.reverse_removal_order)
       IN  /\ allTrimGroups' = IF so.remove_duplicates THEN r.groups ELSE allTrimGroups
           /\ deleted' = IF so.remove_duplicates THEN deleted \cup r.gone ELSE deleted
    /\ msgs' = IF Len(allTrimGroups) = 0
               THEN msgs \cup {"no intersections could be calculated"} ELSE msgs
    /\ pc' = "combine_nonintersects"
    /\ UNCHANGED <<so, adjacencyPolicy, selfIntersectingPaths, pathElements, docPaths, pathIndex, subSplitLineArray,
                   selfIsects, globalIntersectionPoints, subSplitIndex, outcome>>
    /\ UNCHANGED otherVars

\* `if so.combine_nonintersects is True: self.combine_nonintersects(allTrimGroups)`
CombineNonintersectsStep ==
    /\ pc = "combine_nonintersects"
    /\ outcome = Running
    /\ LET r == CombineNonintersects(allTrimGroups, so.apply_style_to_trimmed)
       IN  /\ allTrimGroups' = IF so.combine_nonintersects THEN r.groups ELSE allTrimGroups
           /\ deleted' = IF so.combine_nonintersects THEN deleted \cup r.gone ELSE deleted
    /\ pc' = "clean"
    /\ UNCHANGED <<so, adjacencyPolicy, selfIntersectingPaths, pathElements, docPaths, pathIndex, subSplitLineArray,
                   selfIsects, globalIntersectionPoints, subSplitIndex, msgs, outcome>>
    /\ UNCHANGED otherVars

\* the original paths are deleted unless they are to be kept
CleanOriginalsStep ==
    /\ pc = "clean"
    /\ outcome = Running
    /\ docPaths' = IF so.keep_original_after_trim THEN docPaths
                   ELSE docPaths \ {pathElements[i].id : i \in 1..Len(pathElements)}
    /\ outcome' = Finished
    /\ pc' = "done"
    /\ UNCHANGED <<so, adjacencyPolicy, selfIntersectingPaths, pathElements, pathIndex, subSplitLineArray, selfIsects,
                   globalIntersectionPoints, subSplitIndex, allTrimGroups, deleted, msgs>>
    /\ UNCHANGED otherVars

----------------------------------------------------------------------------
(* The runs of effect that are checked *)

PolyLine(points) ==
    [i \in 1..Len(points) |-> Cmd(IF i = 1 THEN "M" ELSE "L", points[i])]

\* path data: a horizontal and a vertical line that cross, an angle, a polyline
\* that closes and crosses itself, and a closed square the vertical line ends on
Shapes ==
    { PolyLine(<< <<0, 1>>, <<2, 1>> >>),
      PolyLine(<< <<1, 0>>, <<1, 2>> >>),
      PolyLine(<< <<0, 1>>, <<2, 1>>, <<2, 2>> >>),
      PolyLine(<< <<0, 1>>, <<2, 1>>, <<2, 2>>, <<1, 2>>, <<1, 0>>, <<0, 0>>, <<0, 1>> >>),
      PolyLine(<< <<0, 0>>, <<2, 0>>, <<2, 2>>, <<0, 2>>, <<0, 0>> >>) }

\* the ids of the paths, in the order the document holds them
PathIds == << <<"a">>, <<"b">>, <<"a", "_", "b">> >>

\* a path element: transform is its own transform, parentTransform the composed
\* transform of its parent; both are translations along x, 0 for none
\* d is its path in document coordinates (path.transform(composed_transform()))
PathElement(id, d, transform, parentTransform) ==
    [id |-> id, d |-> d, style |-> Style("original", id),
     transform |-> transform, parentTransform |-> parentTransform]

\* the documents: up to MaxPaths of the paths of PathIds, each of any shape
Documents ==
    UNION {{[i \in 1..Len(ids) |-> PathElement(PathIds[ids[i]], shapes[i], 0, 0)] :
               shapes \in [1..Len(ids) -> Shapes]} :
           ids \in {q \in SeqsOf(1..Len(PathIds), 1, MaxPaths) :
                       \A i, j \in 1..Len(q) : i < j => q[i] < q[j]}}

\* the options as add_arguments sets them when the caller gives none
DefaultOptions ==
    [draw_trimmed |-> FALSE,
     remove_self_intersecting |-> FALSE,
     trimming_path_types |-> "closed_paths",
     remove_duplicates |-> TRUE,
     reverse_removal_order |-> FALSE,
     combine_nonintersects |-> TRUE,
     keep_original_after_trim |-> FALSE,
     apply_style_to_trimmed |-> TRUE,
     snap_tolerance |-> 1,
     break_apart |-> FALSE,
     flattenbezier |-> TRUE,
     flatness |-> 1,
     remove_relative |-> FALSE,
     remove_absolute |-> FALSE,
     remove_mixed |-> FALSE,
     remove_polylines |-> FALSE,
     remove_beziers |-> FALSE,
     remove_opened |-> FALSE,
     remove_closed |-> FALSE,
     removefillsetstroke |-> FALSE]

AllOptions ==
    [draw_trimmed : BOOLEAN,
     remove_self_intersecting : BOOLEAN,
     trimming_path_types : {"open_paths", "closed_paths", "both"},
     remove_duplicates : BOOLEAN,
     reverse_removal_order : BOOLEAN,
     combine_nonintersects : BOOLEAN,
     keep_original_after_trim : BOOLEAN,
     apply_style_to_trimmed : {TRUE},
     snap_tolerance : {1},
     break_apart : {FALSE},
     flattenbezier : {TRUE},
     flatness : {1},
     remove_relative : {FALSE},
     remove_absolute : {FALSE},
     remove_mixed : {FALSE},
     remove_polylines : {FALSE},
     remove_beziers : {FALSE},
     remove_opened : {FALSE},
     remove_closed : {FALSE},
     removefillsetstroke : {FALSE}]

\* how many settings the caller changed
Changed(options, policy) ==
    Cardinality({f \in DOMAIN options : options[f] # DefaultOptions[f]})
        + (IF policy THEN 0 ELSE 1)

Init ==
    /\ so \in AllOptions
    /\ adjacencyPolicy \in BOOLEAN
    /\ Changed(so, adjacencyPolicy) <= MaxChangedOptions
    /\ pathElements \in Documents
    /\ docPaths = {pathElements[i].id : i \in 1..Len(pathElements)}
    /\ pc = "scan"
    /\ pathIndex = 1
    /\ subSplitLineArray = <<>>
    /\ selfIsects = {}
    /\ selfIntersectingPaths = {}
    /\ globalIntersectionPoints = <<>>
    /\ subSplitIndex = 1
    /\ allTrimGroups = <<>>
    /\ deleted = {}
    /\ msgs = {}
    /\ outcome = Running
    /\ NoOtherRun

Next ==
    \/ ScanPathStep
    \/ GlobalIntersectStep
    \/ BuildTrimLineGroupStep
    \/ RemoveDuplicatesStep
    \/ CombineNonintersectsStep
    \/ CleanOriginalsStep

Spec == Init /\ [][Next]_vars

----------------------------------------------------------------------------
(* remove_duplicates, combine_nonintersects and build_trim_line_group alone,   *)
(* each on the inputs its bounds allow                                         *)

NoRun ==
    /\ adjacencyPolicy = TRUE
    /\ docPaths = {<<"a">>}
    /\ pathIndex = 1
    /\ selfIsects = {}
    /\ selfIntersectingPaths = {}
    /\ deleted = {}
    /\ msgs = {}
    /\ outcome = Running
    /\ NoOtherRun

GroupIdOf(g) == <<"shapely", "-", idPrefix, "-", ToString(g)>>

\* the sub split lines in groups, a new group starting after each position of cuts;
\* chunks[i] are the chunks sub split line i was split into
GroupsOf(chunks, cuts) ==
    LET groupOf(i) == 1 + Cardinality({c \in cuts : c < i})
    IN  [g \in 1..(Cardinality(cuts) + 1) |->
            TrimGroup(GroupIdOf(g),
                      Flatten([i \in 1..Len(chunks) |->
                                  IF groupOf(i) = g
                                  THEN TrimLinesOf(chunks[i], GroupIdOf(g), i - 1,
                                                   Style("original", GroupIdOf(g)), 0)
                                  ELSE <<>>]),
                      <<ToString(g)>>)]

PieceSegs ==
    {seg \in {<<x, 0>> : x \in 0..MaxCoord} \X {<<x, 0>> : x \in 0..MaxCoord} : seg[1] # seg[2]}

\* trim groups of the uncut lines segs, between the points of PieceSegs
DedupInput(segs, cuts) == GroupsOf([i \in 1..Len(segs) |-> <<segs[i]>>], cuts)

InitDedup ==
    /\ NoRun
    /\ so \in {[DefaultOptions EXCEPT !.draw_trimmed = TRUE, !.reverse_removal_order = r] :
                  r \in BOOLEAN}
    /\ \E n \in 1..MaxTrimLines : \E segs \in [1..n -> PieceSegs] :
          \E cuts \in SUBSET (1..(n - 1)) : allTrimGroups = DedupInput(segs, cuts)
    /\ pathElements = <<>>
    /\ subSplitLineArray = <<>>
    /\ globalIntersectionPoints = <<>>
    /\ subSplitIndex = 1
    /\ pc = "remove_duplicates"

SpecDedup == InitDedup /\ [][RemoveDuplicatesStep]_vars

\* sub split line i of a polyline along the x axis: it starts where the line before
\* it ended, or one row up when it starts a new sub path; it is cut in the middle or not
RECURSIVE ChainStart(_, _)
ChainStart(spec, i) ==
    IF i = 1 THEN <<0, 0>>
    ELSE LET s == ChainStart(spec, i - 1)
         IN  <<s[1] + 2, s[2] + (IF spec[i].jump THEN 1 ELSE 0)>>

ChainChunks(spec, i) ==
    LET s == ChainStart(spec, i)
        m == <<s[1] + 1, s[2]>>
        e == <<s[1] + 2, s[2]>>
    IN  IF spec[i].cut THEN << <<s, m>>, <<m, e>> >> ELSE << <<s, e>> >>

\* trim groups of the lines of such a polyline
CombineInput(spec, cuts) == GroupsOf([i \in 1..Len(spec) |-> ChainChunks(spec, i)], cuts)

InitCombine ==
    /\ NoRun
    /\ so \in {[DefaultOptions EXCEPT !.draw_trimmed = TRUE, !.apply_style_to_trimmed = t] :
                  t \in BOOLEAN}
    /\ \E n \in 1..MaxCombineLines : \E spec \in [1..n -> [cut : BOOLEAN, jump : BOOLEAN]] :
          \E cuts \in SUBSET (1..(n - 1)) : allTrimGroups = CombineInput(spec, cuts)
    /\ pathElements = <<>>
    /\ subSplitLineArray = <<>>
    /\ globalIntersectionPoints = <<>>
    /\ subSplitIndex = 1
    /\ pc = "combine_nonintersects"

SpecCombine == InitCombine /\ [][CombineNonintersectsStep]_vars

\* path a, with its own transform and that of its parent
TrimInputElements ==
    {PathElement(<<"a">>, <<>>, t, p) : t \in 0..MaxTranslate, p \in 0..MaxTranslate}

\* the sub split line scanned from a line of the element, lying on (0..MaxX, 0)
TrimInputLines(pathElement) ==
    {SubSplitLine(pathElement, 0, Translate(<<x1, 0>>, pathElement.parentTransform),
                  Translate(<<x2, 0>>, pathElement.parentTransform), FALSE, FALSE) :
        x1 \in 0..MaxX, x2 \in 0..MaxX}

\* the intersection points of a global run, in any order
TrimInputPoints ==
    {pts \in SeqsOf((0..MaxX) \X (0..1), 1, MaxIsects) :
        \A i, j \in 1..Len(pts) : i # j => pts[i] # pts[j]}

InitTrim ==
    /\ NoRun
    /\ so \in {[DefaultOptions EXCEPT !.draw_trimmed = TRUE, !.trimming_path_types = "both",
                                      !.snap_tolerance = t] : t \in 0..MaxTolerance}
    /\ \E pathElement \in TrimInputElements : \E line \in TrimInputLines(pathElement) :
          /\ StartOf(line) # EndOf(line)
          /\ pathElements = <<pathElement>>
          /\ subSplitLineArray = <<line>>
    /\ globalIntersectionPoints \in TrimInputPoints
    /\ allTrimGroups = <<>>
    /\ subSplitIndex = 1
    /\ pc = "split"

SpecTrim == InitTrim /\ [][BuildTrimLineGroupStep]_vars

\* effect up to the end of the scan, on one path of one or more subpaths
MaxSubPaths == 2

\* the subpaths: an open line, a triangle closed by a line to its start, the same
\* closed by Z, an open polyline that crosses itself, a move followed by a close,
\* a lone move, a cubic and a quadratic curve
SubPathKinds ==
    { PolyLine(<< <<0, 1>>, <<2, 1>> >>),
      PolyLine(<< <<0, 0>>, <<2, 0>>, <<2, 2>>, <<0, 0>> >>),
      Append(PolyLine(<< <<0, 0>>, <<2, 0>>, <<2, 2>> >>), Cmd("Z", <<>>)),
      PolyLine(<< <<0, 1>>, <<2, 1>>, <<2, 2>>, <<1, 2>>, <<1, 0>> >>),
      <<Cmd("M", <<1, 1>>), Cmd("Z", <<>>)>>,
      <<Cmd("M", <<1, 1>>)>>,
      <<Cmd("M", <<0, 0>>), CurveCmd("C", <<0, 2>>, <<2, 2>>)>>,
      <<Cmd("M", <<0, 2>>), CurveCmd("Q", <<0, 0>>, <<2, 0>>)>> }

\* flatness as the caller may give it: below 0, 0, the default, and one so large
\* that the curves here are flat enough as they are
FlatnessValues == {-1, 0, 1, 2}

InitScan ==
    /\ \E subPaths \in SeqsOf(SubPathKinds, 1, MaxSubPaths) :
          pathElements = <<PathElement(<<"a">>, Flatten(subPaths), 0, 0)>>
    /\ so \in {[DefaultOptions EXCEPT !.break_apart = b, !.remove_self_intersecting = r,
                                      !.flatness = f] :
                  b \in BOOLEAN, r \in BOOLEAN, f \in FlatnessValues}
    /\ adjacencyPolicy = TRUE
    /\ docPaths = {<<"a">>}
    /\ pc = "get_path_elements"
    /\ pathIndex = 1
    /\ subSplitLineArray = <<>>
    /\ selfIsects = {}
    /\ selfIntersectingPaths = {}
    /\ globalIntersectionPoints = <<>>
    /\ subSplitIndex = 1
    /\ allTrimGroups = <<>>
    /\ deleted = {}
    /\ msgs = {}
    /\ outcome = Running
    /\ NoOtherRun

NextScan == GetPathElementsStep \/ ScanPathStep

SpecScan == InitScan /\ [][NextScan]_vars

\* effect up to the end of the scan, on two paths and the options that remove
\* paths by their kind. The paths: an open line, a closed triangle, a cubic
\* curve, a line in relative commands and one in commands of both kinds
FilterShapes ==
    { PolyLine(<< <<0, 1>>, <<2, 1>> >>),
      PolyLine(<< <<0, 0>>, <<2, 0>>, <<2, 2>>, <<0, 0>> >>),
      <<Cmd("M", <<0, 0>>), CurveCmd("C", <<0, 2>>, <<2, 2>>)>>,
      <<Cmd("m", <<0, 1>>), Cmd("l", <<2, 0>>)>>,
      <<Cmd("M", <<0, 1>>), Cmd("l", <<2, 0>>)>> }

RemoveOptions ==
    {[DefaultOptions EXCEPT !.remove_absolute = f[1], !.remove_relative = f[2],
                            !.remove_mixed = f[3], !.remove_beziers = f[4],
                            !.remove_polylines = f[5], !.remove_opened = f[6],
                            !.remove_closed = f[7]] : f \in [1..7 -> BOOLEAN]}

InitFilter ==
    /\ \E shapes \in [1..2 -> FilterShapes] :
          pathElements = [i \in 1..2 |-> PathElement(PathIds[i], shapes[i], 0, 0)]
    /\ so \in RemoveOptions
    /\ adjacencyPolicy = TRUE
    /\ docPaths = {pathElements[i].id : i \in 1..Len(pathElements)}
    /\ pc = "get_path_elements"
    /\ pathIndex = 1
    /\ subSplitLineArray = <<>>
    /\ selfIsects = {}
    /\ selfIntersectingPaths = {}
    /\ globalIntersectionPoints = <<>>
    /\ subSplitIndex = 1
    /\ allTrimGroups = <<>>
    /\ deleted = {}
    /\ msgs = {}
    /\ outcome = Running
    /\ NoOtherRun

SpecFilter == InitFilter /\ [][NextScan]_vars

\* effect on a closed path and open paths that cross it: a square, and a
\* horizontal and a vertical line through two sides of it each
CrossingShapes ==
    { PolyLine(<< <<1, 1>>, <<3, 1>>, <<3, 3>>, <<1, 3>>, <<1, 1>> >>),
      PolyLine(<< <<0, 2>>, <<4, 2>> >>),
      PolyLine(<< <<2, 0>>, <<2, 4>> >>) }

InitCrossing ==
    /\ so \in {[DefaultOptions EXCEPT !.draw_trimmed = TRUE, !.trimming_path_types = t,
                                      !.remove_duplicates = r, !.combine_nonintersects = c,
                                      !.keep_original_after_trim = k,
                                      !.removefillsetstroke = f] :
                  t \in {"open_paths", "closed_paths", "both"},
                  r \in BOOLEAN, c \in BOOLEAN, k \in BOOLEAN, f \in BOOLEAN}
    /\ adjacencyPolicy = TRUE
    /\ \E shapes \in [1..MaxPaths -> CrossingShapes] :
          pathElements = [i \in 1..MaxPaths |-> PathElement(PathIds[i], shapes[i], 0, 0)]
    /\ docPaths = {pathElements[i].id : i \in 1..Len(pathElements)}
    /\ pc = "scan"
    /\ pathIndex = 1
    /\ subSplitLineArray = <<>>
    /\ selfIsects = {}
    /\ selfIntersectingPaths = {}
    /\ globalIntersectionPoints = <<>>
    /\ subSplitIndex = 1
    /\ allTrimGroups = <<>>
    /\ deleted = {}
    /\ msgs = {}
    /\ outcome = Running
    /\ NoOtherRun

SpecCrossing == InitCrossing /\ [][Next]_vars

----------------------------------------------------------------------------
(* What is checked of remove_duplicates (SpecDedup) *)

DedupDone == pc = "combine_nonintersects"

\* the trim lines that are in a group of the list
Surviving == UNION {Range(allTrimGroups[g].children) : g \in 1..Len(allTrimGroups)}

\* the trim lines that were handed to remove_duplicates
BeforeDedup == Surviving \cup deleted

PositionOfGroup(gid) == CHOOSE g \in 1..Len(allTrimGroups) : allTrimGroups[g].id = gid

\* remove_duplicates visits trim line s before trim line d
VisitedBefore(s, d) ==
    LET gs == PositionOfGroup(s.id.group)
        gd == PositionOfGroup(d.id.group)
    IN  IF gs = gd THEN s.id.index < d.id.index
        ELSE IF so.reverse_removal_order THEN gs > gd ELSE gs < gd

\* the same end points, in the same or in the opposite direction
SameSegment(p, q) ==
    \/ p.path[1].pt = q.path[1].pt /\ p.path[2].pt = q.path[2].pt
    \/ p.path[1].pt = q.path[2].pt /\ p.path[2].pt = q.path[1].pt

\* C1: of the trim lines with the same end points, in either orientation, exactly
\* one survives remove_duplicates
C1_EitherOrientationIsDuplicate ==
    DedupDone =>
        \A e \in BeforeDedup : Cardinality({s \in Surviving : SameSegment(s, e)}) = 1

\* C2: remove_duplicates never removes the last trim line of a geometry: every path
\* that was in the groups is the path of exactly one surviving trim line, and a trim
\* line is removed only when a trim line of the same path was visited before it
C2_KeepsOneOfEachPath ==
    DedupDone =>
        /\ \A e \in BeforeDedup : Cardinality({s \in Surviving : s.path = e.path}) = 1
        /\ \A d \in deleted : \E s \in Surviving : s.path = d.path /\ VisitedBefore(s, d)

\* a trim line was removed, and trim lines of two different paths are left
C2_Witness ==
    /\ DedupDone
    /\ deleted # {}
    /\ \E s, t \in Surviving : s.path # t.path

\* C10: of the trim lines of one path the one visited first survives: with forward
\* order it is in the earliest group that holds the path, with reverse order in the
\* latest, and in its group it is the first
C10_FirstVisitedSurvives ==
    DedupDone =>
        \A s \in Surviving : \A e \in BeforeDedup :
            (e.path = s.path /\ e # s) =>
                /\ VisitedBefore(s, e)
                /\ IF so.reverse_removal_order
                   THEN PositionOfGroup(s.id.group) >= PositionOfGroup(e.id.group)
                   ELSE PositionOfGroup(s.id.group) <= PositionOfGroup(e.id.group)

\* with reverse order, a trim line of an earlier group was removed for one of a later group
C10_Witness ==
    /\ DedupDone
    /\ so.reverse_removal_order
    /\ \E d \in deleted : \E s \in Surviving :
          s.path = d.path /\ PositionOfGroup(s.id.group) > PositionOfGroup(d.id.group)

----------------------------------------------------------------------------
(* What is checked of combine_nonintersects (SpecCombine) *)

CombineDone == pc = "clean"

GroupChildren(g) == Range(allTrimGroups[g].children)

\* the trim lines group g held before combine_nonintersects
BeforeCombine(g) ==
    GroupChildren(g) \cup {d \in deleted : d.id.group = allTrimGroups[g].id}

\* the ids in ids have ascending indices
Ascending(ids) == \A i, j \in 1..Len(ids) : i < j => ids[i].index < ids[j].index

\* C3: combine_nonintersects merges only consecutive non-intersected pieces: no
\* output path holds two pieces that have an intersected piece of the group
\* between them
C3_ChainClosesAtIntersectedPiece ==
    CombineDone =>
        \A g \in 1..Len(allTrimGroups) : \A e, v \in GroupChildren(g) :
            v.id.verb =>
                ~ \E i, j \in 1..Len(e.merged) :
                      e.merged[i].index < v.id.index /\ v.id.index < e.merged[j].index

\* C3 as the code has it: an intersected piece is never merged and stays as it was;
\* all non-intersected pieces of a trim group, consecutive or not, are merged in
\* group order into one path, that of the first of them
C3_MergesAllNonIntersected ==
    CombineDone =>
        \A g \in 1..Len(allTrimGroups) :
            /\ \A v \in BeforeCombine(g) :
                  v.id.verb => /\ v \in GroupChildren(g)
                               /\ v.merged = <<v.id>>
                               /\ Len(v.path) = 2
            /\ \A e \in GroupChildren(g) :
                  ~e.id.verb =>
                      /\ Range(e.merged) = {x.id : x \in {y \in BeforeCombine(g) : ~y.id.verb}}
                      /\ Ascending(e.merged)
                      /\ e.id = e.merged[1]
                      /\ \A i \in 1..Len(e.merged) : ~e.merged[i].verb

\* a path was merged from pieces that have an intersected piece between them
C3_Witness ==
    /\ CombineDone
    /\ \E g \in 1..Len(allTrimGroups) : \E e, v \in GroupChildren(g) :
          /\ v.id.verb
          /\ \E i, j \in 1..Len(e.merged) :
                e.merged[i].index < v.id.index /\ v.id.index < e.merged[j].index

----------------------------------------------------------------------------
(* What is checked of build_trim_line_group (SpecTrim) *)

TrimDone == pc = "remove_duplicates" /\ outcome = Running

\* p is q, or within the snap tolerance of q
Near(p, q) == Dist2(p, q) <= Sq(so.snap_tolerance)

\* C5: the trim lines made for a sub split line, in order, are contiguous, the first
\* starts at the start of the line and the last ends at the end of the line, both
\* within the snap tolerance, so that no part of the line is missing
C5_PiecesCoverTheLine ==
    TrimDone =>
        /\ Len(allTrimGroups) = 1
        /\ LET line   == subSplitLineArray[1]
               pieces == allTrimGroups[1].children
           IN  /\ Len(pieces) >= 1
               /\ \A k \in 1..(Len(pieces) - 1) : EndOf(pieces[k]) = StartOf(pieces[k + 1])
               /\ Near(StartOf(pieces[1]), StartOf(line))
               /\ Near(EndOf(pieces[Len(pieces)]), EndOf(line))

----------------------------------------------------------------------------
(* What is checked of a run of effect (Spec) *)

\* the sub split line a trim line was made from
SourceLine(id) == subSplitLineArray[id.index + 1]

\* the ids of the trim lines group g holds, merged ones included
PiecesOf(g) ==
    UNION {Range(allTrimGroups[g].children[k].merged) :
              k \in 1..Len(allTrimGroups[g].children)}

PathKey(line) == BeforeFirst(line.originalPathId, "_")

IsectRuns == {"self-intersection run", "global run"}

\* C6: an error an intersection run raises is reported and never ends effect as an
\* uncaught exception
C6_IsectErrorIsReported ==
    ~(outcome.kind = "crashed" /\ outcome.at \in IsectRuns)

\* the nodes of the last sub path of the path scanned last
LastScanned ==
    LET subPaths == SubPathsOf(pathElements[pathIndex - 1].d)
    IN  CspNodes(subPaths[Len(subPaths)], <<>>)

\* node k joins two consecutive segments and lies on no other segment
ConnectingVertex(nodes, k) ==
    /\ k \in 2..(Len(nodes) - 1)
    /\ \A i \in 1..(Len(nodes) - 1) :
          i \notin {k - 1, k} => ~OnSegment(nodes[k], nodes[i], nodes[i + 1])

\* C7: the self-intersection run leaves the connecting vertex of two consecutive
\* segments out when the caller's adjacency exclusion policy is enabled, and reports
\* it when the caller disabled the policy
C7_AdjacencyPolicyIsTunable ==
    (pc \in {"scan", "global"} /\ pathIndex > 1 /\ outcome = Running) =>
        \A k \in 1..Len(LastScanned) :
            ConnectingVertex(LastScanned, k) =>
                (LastScanned[k] \in selfIsects <=> ~adjacencyPolicy)

\* C8: build_trim_line_group does not fail on a sub split line whose original path
\* is no longer in the document
C8_DeletedContourIsTolerated ==
    ~ /\ outcome.kind = "crashed"
      /\ outcome.at = "build_trim_line_group"
      /\ subSplitLineArray[subSplitIndex].originalPathId \notin docPaths

\* remove_duplicates has had its turn in this run
AfterDedup ==
    \/ pc \in {"combine_nonintersects", "clean"}
    \/ pc = "done" /\ outcome = Finished /\ globalIntersectionPoints # <<>>

\* the trim group ids of the sub split lines build_trim_line_group did not skip
TrimGroupIds ==
    {TrimGroupId(subSplitLineArray[i].id) :
        i \in {j \in 1..Len(subSplitLineArray) :
                  ~SkipsTrimming(subSplitLineArray[j], so.trimming_path_types)}}

\* C9: a trim group remove_duplicates emptied is not in the document and not among
\* the groups combine_nonintersects is handed
C9_EmptiedGroupLeavesTheList ==
    pc = "combine_nonintersects" =>
        \A g \in 1..Len(allTrimGroups) :
            allTrimGroups[g].inDoc /\ allTrimGroups[g].children # <<>>

\* C9 as the code has it: a trim group remove_duplicates emptied is taken out of
\* the document and no other is, but it stays in the list of trim groups:
\* combine_nonintersects is handed it, and leaves it empty
C9_EmptiedGroupLeavesTheDocument ==
    AfterDedup =>
        /\ \A g \in 1..Len(allTrimGroups) :
              allTrimGroups[g].inDoc <=> allTrimGroups[g].children # <<>>
        /\ {allTrimGroups[g].id : g \in 1..Len(allTrimGroups)} = TrimGroupIds
        /\ Len(allTrimGroups) = Cardinality(TrimGroupIds)

\* combine_nonintersects was handed a group that remove_duplicates emptied
C9_Witness ==
    /\ pc = "clean"
    /\ so.combine_nonintersects
    /\ \E g \in 1..Len(allTrimGroups) :
          ~allTrimGroups[g].inDoc /\ allTrimGroups[g].children = <<>>

----------------------------------------------------------------------------
(* remove_duplicates run again, marks of the pieces, collapsed points *)

\* C11: remove_duplicates run once more on its own result, in either order, removes
\* no trim line and no group
C11_DedupIsIdempotent ==
    DedupDone =>
        \A again \in BOOLEAN :
            LET r == RemoveDuplicates(allTrimGroups, again)
            IN  r.groups = allTrimGroups /\ r.gone = {}

\* the first run removed a trim line from a group it left something in, and emptied
\* another group
C11_Witness ==
    /\ DedupDone
    /\ \E g, h \in 1..Len(allTrimGroups) :
          /\ allTrimGroups[g].children = <<>>
          /\ allTrimGroups[h].children # <<>>
          /\ \E d \in deleted : d.id.group = allTrimGroups[h].id

\* the trim lines made for the one sub split line of SpecTrim
PiecesOfLine == allTrimGroups[1].children

\* C12: every piece of a sub split line that was cut carries the mark
\* combine_nonintersects reads, the intersected verb in its id, and the one piece of
\* a line that was not cut does not carry it
C12_CutPiecesAreMarked ==
    TrimDone =>
        \A k \in 1..Len(PiecesOfLine) :
            HasIntersectedVerb(PiecesOfLine[k].id) <=> Len(PiecesOfLine) > 1

\* a line was cut twice: its last piece has the verb in its id, not the flag
C12_Witness ==
    /\ TrimDone
    /\ Len(PiecesOfLine) = 3
    /\ ~PiecesOfLine[3].intersected
    /\ HasIntersectedVerb(PiecesOfLine[3].id)

\* no two commands of path that follow each other have the same coordinates
NoRepeatedPoint(path) == \A z \in 2..Len(path) : path[z].pt # path[z - 1].pt

\* sub is what is left of seq when some of its members are taken out
RECURSIVE IsSubSeq(_, _)
IsSubSeq(sub, seq) ==
    IF sub = <<>> THEN TRUE
    ELSE IF seq = <<>> THEN FALSE
    ELSE IF Head(sub) = Head(seq) THEN IsSubSeq(Tail(sub), Tail(seq))
    ELSE IsSubSeq(sub, Tail(seq))

\* the commands of the non-intersected pieces of a group, in group order
NonIntersectedData(trimGroup) ==
    Flatten([k \in 1..Len(trimGroup.children) |->
                IF HasIntersectedVerb(trimGroup.children[k].id) THEN <<>>
                ELSE trimGroup.children[k].path])

\* C13: a path combine_nonintersects writes has no two consecutive commands of the
\* same coordinates, and its commands are commands of the pieces it was made of, in
\* their order, every point of them among them
C13_RepeatedPointsCollapse ==
    [][(pc = "combine_nonintersects" /\ so.combine_nonintersects) =>
          \A g \in 1..Len(allTrimGroups) :
              \A k \in 1..Len(allTrimGroups'[g].children) :
                  LET e    == allTrimGroups'[g].children[k]
                      data == NonIntersectedData(allTrimGroups[g])
                  IN  ~HasIntersectedVerb(e.id) =>
                          /\ NoRepeatedPoint(e.path)
                          /\ IsSubSeq(e.path, data)
                          /\ {c.pt : c \in Range(e.path)} = {c.pt : c \in Range(data)}
                          /\ e.path[1] = data[1]]_vars

\* a path was merged from pieces that touch: it has fewer commands than they had
C13_Witness ==
    /\ CombineDone
    /\ \E g \in 1..Len(allTrimGroups) : \E e \in GroupChildren(g) :
          /\ Len(e.merged) >= 2
          /\ Len(e.path) < 2 * Len(e.merged)

-----------------------------------------------------------------------------
(* The scan of a path of several subpaths *)

\* the scan of every path went through, and deleted no path
ScanDone == pc = "global" /\ outcome = Running /\ pathIndex = Len(pathElements) + 1

\* the segments of subpath k of a path, as the scan takes them from its nodes
SegmentsOfSubPath(raw, k) ==
    LET segs == SegsOf(SubPathsOf(raw)[k], IsBezierPath(raw), so)
    IN  [i \in 1..(Len(segs) - 1) |-> <<segs[i], segs[i + 1]>>]

\* a subpath on its own is closed: it ends with Z, or its last point is its first
SubPathIsClosed(subPath) ==
    \/ subPath[Len(subPath)].letter = "Z"
    \/ Len(subPath) > 1 /\ subPath[Len(subPath)].pt = subPath[1].pt

\* for each segment of the path, in the order of the scan, whether its subpath is closed
ClosedFlagsOfSubPaths(raw) ==
    Flatten([k \in 1..Len(SubPathsOf(raw)) |->
               [i \in 1..Len(SegmentsOfSubPath(raw, k)) |->
                   SubPathIsClosed(SubPathsOf(raw)[k])]])

\* C14: closure is detected per subpath: the closed flag of a sub split line is
\* that of the subpath the line was made from, which is closed exactly when it
\* ends with Z or in its own first point
C14_ClosedFlagIsOfTheSubPath ==
    ScanDone /\ ~so.remove_self_intersecting =>
        [k \in 1..Len(subSplitLineArray) |-> subSplitLineArray[k].originalPathIsClosed]
            = Flatten([i \in 1..Len(pathElements) |->
                          ClosedFlagsOfSubPaths(pathElements[i].d)])

\* a subpath of a single point: a lone move, or a move followed directly by a close
IsPointy(subPath) ==
    \/ Len(subPath) = 1
    \/ Len(subPath) = 2 /\ subPath[2].letter = "Z"

AllSubPaths(elements) ==
    Flatten([i \in 1..Len(elements) |-> SubPathsOf(elements[i].d)])

ZeroLength(lines) == SelectSeq(lines, LAMBDA line : StartOf(line) = EndOf(line))

MoveAndClose(subPaths) ==
    SelectSeq(subPaths, LAMBDA subPath : Len(subPath) = 2 /\ subPath[2].letter = "Z")

C16_FlaggedIffSomeSubPathIntersectsItself ==
    ScanDone =>
        \A i \in 1..Len(pathElements) :
            pathElements[i].id \in selfIntersectingPaths
                <=> \E k \in 1..Len(SubPathsOf(pathElements[i].d)) :
                       IsectSegments(SegmentsOfSubPath(pathElements[i].d, k), TRUE) # {}

-----------------------------------------------------------------------------
(* The path types that are trimmed *)

\* every sub split line went through build_trim_line_group
SplitDone == pc = "remove_duplicates" /\ outcome = Running

\* the trim line ends where its sub split line was cut: the next trim line of the
\* group is the next piece of the same sub split line
EndsAtCut(trimGroup, k) ==
    /\ k < Len(trimGroup.children)
    /\ trimGroup.children[k + 1].id.index = trimGroup.children[k].id.index

\* the sub split lines of the selected type that meet sub split line n in p
SelectedLinesThrough(n, p) ==
    {m \in 1..Len(subSplitLineArray) :
        /\ m # n
        /\ ~SkipsTrimming(subSplitLineArray[m], so.trimming_path_types)
        /\ p \in PairIsects(SegmentOf(subSplitLineArray[n]),
                            SegmentOf(subSplitLineArray[m]), TRUE)}

\* C17: with trimming_path_types open_paths or closed_paths, a path of the
\* selected type is cut only where it meets a path of the selected type
C17_CutsAreByPathsOfTheSelectedType ==
    SplitDone /\ so.trimming_path_types # "both" =>
        \A g \in 1..Len(allTrimGroups) :
            \A k \in 1..Len(allTrimGroups[g].children) :
                EndsAtCut(allTrimGroups[g], k) =>
                    SelectedLinesThrough(allTrimGroups[g].children[k].id.index + 1,
                                         EndOf(allTrimGroups[g].children[k])) # {}

-----------------------------------------------------------------------------
(* The order of the stages, the one global run, the empty result *)

\* the stages of effect in the order of its code
Stages ==
    <<"get_path_elements", "scan", "global", "split", "remove_duplicates",
      "combine_nonintersects", "clean", "done">>

StageOf(at) == CHOOSE n \in 1..Len(Stages) : Stages[n] = at

AllSubSplitLineStrings ==
    [i \in 1..Len(subSplitLineArray) |-> SegmentOf(subSplitLineArray[i])]

\* C18: the stages run in order, each after the one before it is complete: the
\* global run is made when every path is scanned, a sub split line is split when
\* the global run has returned its points for the whole list, remove_duplicates
\* runs when every sub split line is split, combine_nonintersects when
\* remove_duplicates has left nothing to remove; a stage changes nothing but what
\* is its own
C18_StagesRunInOrder ==
    [][/\ StageOf(pc') >= StageOf(pc)
       /\ pc = "global" => pathIndex = Len(pathElements) + 1
       /\ pc = "split" =>
            /\ pathIndex = Len(pathElements) + 1
            /\ globalIntersectionPoints = SortedPoints(IsectSegments(AllSubSplitLineStrings, TRUE))
       /\ pc = "remove_duplicates" => subSplitIndex = Len(subSplitLineArray) + 1
       /\ pc = "combine_nonintersects" =>
            /\ subSplitIndex = Len(subSplitLineArray) + 1
            /\ so.remove_duplicates =>
                 RemoveDuplicates(allTrimGroups, so.reverse_removal_order).groups = allTrimGroups
       /\ subSplitLineArray' # subSplitLineArray => pc = "scan"
       /\ globalIntersectionPoints' # globalIntersectionPoints => pc = "global"
       /\ allTrimGroups' # allTrimGroups =>
            pc \in {"split", "remove_duplicates", "combine_nonintersects"}
       /\ deleted' # deleted => pc \in {"remove_duplicates", "combine_nonintersects"}]_vars

\* a run of two paths that went through every stage: trim lines were deleted,
\* lines of two sub split lines were merged
C18_Witness ==
    /\ pc = "done"
    /\ outcome = Finished
    /\ Len(pathElements) > 1
    /\ deleted # {}
    /\ \E g \in 1..Len(allTrimGroups) : \E k \in 1..Len(allTrimGroups[g].children) :
          Len(allTrimGroups[g].children[k].merged) > 1

\* C19: the global run is made at most once in a run of effect, and when it
\* fails with an error of the sweep, effect reports the error and ends, with
\* no second run and no option changed
C19_GlobalRunOnceAndReported ==
    [][/\ (pc' = "global" /\ pc # "global") => pc \in {"get_path_elements", "scan"}
       /\ pc = "global" =>
            /\ pc' # "global" \/ outcome' # Running
            /\ so' = so
            /\ outcome'.error # "" =>
                 /\ outcome'.kind = "reported"
                 /\ "Error calculating global intersections" \in msgs'
                 /\ pc' = "done"]_vars

\* C20: with draw_trimmed, a global run that finds no intersection point ends
\* the run without an error: no trim group is made, no path is deleted and
\* nothing is reported, whatever keep_original_after_trim says
C20_EmptyResultIsNoError ==
    [][(pc = "global" /\ so.draw_trimmed /\ outcome'.error = ""
            /\ globalIntersectionPoints' = <<>>) =>
          /\ outcome' = Finished
          /\ pc' = "done"
          /\ allTrimGroups' = <<>>
          /\ docPaths' = docPaths
          /\ deleted' = {}
          /\ msgs' = msgs]_vars

\* the run of a path of two segments ended with no intersection point, the path
\* still in the document though the originals were not to be kept
C20_Witness ==
    /\ pc = "done"
    /\ outcome = Finished
    /\ so.draw_trimmed
    /\ ~so.keep_original_after_trim
    /\ globalIntersectionPoints = <<>>
    /\ Len(subSplitLineArray) > 1
    /\ docPaths = {pathElements[i].id : i \in 1..Len(pathElements)}
    /\ allTrimGroups = <<>>

-----------------------------------------------------------------------------
(* The style of the trimmed lines *)

\* the trimming went through all its stages
TrimmingDone == pc = "done" /\ outcome = Finished /\ globalIntersectionPoints # <<>>

\* C22: with apply_style_to_trimmed, a trim line that is left after splitting,
\* remove_duplicates and combine_nonintersects has the style its path had when
\* the sub split lines were made, for each of the sub split lines it was made of
C22_StyleIsCarriedThrough ==
    TrimmingDone /\ so.apply_style_to_trimmed =>
        \A g \in 1..Len(allTrimGroups) :
            \A k \in 1..Len(allTrimGroups[g].children) :
                \A m \in Range(allTrimGroups[g].children[k].merged) :
                    allTrimGroups[g].children[k].style
                        = subSplitLineArray[m.index + 1].originalPathStyle

-----------------------------------------------------------------------------
(* flatness, and the curves of a path *)

\* C21: a flatness of 0 or less is rejected at once: with it no path is scanned,
\* none is made into sub split lines and cspsubdiv is never called
C21_BadFlatnessIsRejected ==
    so.flatness <= 0 =>
        /\ subSplitLineArray = <<>>
        /\ pathIndex = 1
        /\ outcome.at # "cspsubdiv"

\* a subpath on its own has a curve command, of whatever kind
SubPathHasCurve(subPath) == \E i \in 1..Len(subPath) : IsCurve(subPath[i])

\* for each segment of the path, had every subpath been flattened by its own
\* flag, whether its subpath has a curve
BezierFlagsOfSubPaths(raw, options) ==
    Flatten([k \in 1..Len(SubPathsOf(raw)) |->
               [i \in 1..(Len(SegsOf(SubPathsOf(raw)[k], SubPathHasCurve(SubPathsOf(raw)[k]),
                                     options)) - 1) |->
                   SubPathHasCurve(SubPathsOf(raw)[k])]])

\* C23: the curve flag is that of the subpath: a sub split line is marked as
\* made from a bezier exactly when its own subpath has a curve command of any
\* kind, and the subpath is flattened by that flag
C23_BezierFlagIsOfTheSubPath ==
    ScanDone /\ ~so.remove_self_intersecting =>
        [k \in 1..Len(subSplitLineArray) |-> subSplitLineArray[k].originalPathIsBezier]
            = Flatten([i \in 1..Len(pathElements) |->
                          BezierFlagsOfSubPaths(pathElements[i].d, so)])

----------------------------------------------------------------------------
(* The removal of a path that intersects itself *)

\* the segments the scan makes of a path, of all its subpaths in their order
SegmentsOfPath(pathElement) ==
    Flatten([k \in 1..Len(SubPathsOf(pathElement.d)) |->
               [i \in 1..Len(SegmentsOfSubPath(pathElement.d, k)) |->
                   <<pathElement.id, SegmentsOfSubPath(pathElement.d, k)[i]>>]])

\* C27: the removal of a self-intersecting path takes exactly its own sub split
\* lines off the list: after the scan the list holds all segments of every path
\* left in the document and no segment of a removed one
C27_RemovalTakesExactlyTheLinesOfThePath ==
    ScanDone /\ so.remove_self_intersecting =>
        [k \in 1..Len(subSplitLineArray) |->
            <<subSplitLineArray[k].originalPathId,
              <<subSplitLineArray[k].path[1].pt, subSplitLineArray[k].path[2].pt>> >>]
          = Flatten([i \in 1..Len(pathElements) |->
                        IF pathElements[i].id \in docPaths
                        THEN SegmentsOfPath(pathElements[i]) ELSE <<>>])

----------------------------------------------------------------------------
(* removefillsetstroke and the trimmed lines *)

\* C28: with removefillsetstroke and apply_style_to_trimmed, the trimmed lines
\* of a path carry the style adjust_style gave the path, not the style the
\* path had before
C28_TrimmedLinesCarryTheAdjustedStyle ==
    TrimmingDone /\ so.removefillsetstroke /\ so.apply_style_to_trimmed =>
        \A g \in 1..Len(allTrimGroups) :
            \A k \in 1..Len(allTrimGroups[g].children) :
                \E i \in 1..Len(pathElements) :
                    /\ pathElements[i].style = AdjustStyle(Style("original", pathElements[i].id))
                    /\ allTrimGroups[g].children[k].style = pathElements[i].style

----------------------------------------------------------------------------
(* The clean-up of the original paths *)

\* the ids of the paths that a trim line left in the groups was made of
PathsOfTrimmedPieces ==
    {subSplitLineArray[m.index + 1].originalPathId :
        m \in UNION {UNION {Range(allTrimGroups[g].children[k].merged) :
                               k \in 1..Len(allTrimGroups[g].children)} :
                        g \in 1..Len(allTrimGroups)}}

\* C29: no path is deleted without a replacement: a path the clean-up of the
\* trimming took out of the document has a trimmed piece made of it in a group
C29_DeletedPathHasATrimmedPiece ==
    TrimmingDone /\ ~so.keep_original_after_trim =>
        \A i \in 1..Len(pathElements) :
            pathElements[i].id \notin docPaths => pathElements[i].id \in PathsOfTrimmedPieces

----------------------------------------------------------------------------
(* The remove options of the scan *)

\* C30: a path deleted by a remove option of the scan gives no sub split line:
\* when the global run starts, no line in the list names a path that the scan
\* took out of the document
C30_FilteredPathGivesNoSegment ==
    pc = "global" /\ outcome = Running =>
        \A i \in 1..Len(pathElements) :
            pathElements[i].id \notin docPaths =>
                \A k \in 1..Len(subSplitLineArray) :
                    subSplitLineArray[k].originalPathId # pathElements[i].id

\* the scan deleted the first path for its kind and made lines of the second
C30_Witness ==
    /\ pc = "global" /\ outcome = Running
    /\ pathIndex = 3
    /\ so.remove_relative
    /\ IsRelativePath(pathElements[1].d)
    /\ pathElements[1].id \notin docPaths
    /\ pathElements[2].id \in docPaths
    /\ subSplitLineArray # <<>>

----------------------------------------------------------------------------
(* reverse_order_subpaths.py: ReverseOrderSubpaths.effect *)

\* the most subpaths of a selected path
MaxReversed == 3

\* a cubic curve to p with the control points c1 and c2
Curve(c1, c2, p) == [letter |-> "C", pt |-> p, c1 |-> c1, c2 |-> c2]

\* a node of a CubicSuperPath: its point and the two handles
CspNode(in, pt, out) == [in |-> in, pt |-> pt, out |-> out]

\* elem.path.to_superpath(): a subpath per M; a node per L and C, the handles
\* of a curve given to the node before it and to its own; for Z the first node
\* of the subpath again
RECURSIVE ToSuperpath(_, _)
ToSuperpath(raw, csp) ==
    IF raw = <<>> THEN csp
    ELSE LET c    == Head(raw)
             n    == Len(csp)
             last == csp[n][Len(csp[n])]
         IN  IF c.letter = "M"
             THEN ToSuperpath(Tail(raw), Append(csp, <<CspNode(c.pt, c.pt, c.pt)>>))
             ELSE IF c.letter = "Z"
             THEN ToSuperpath(Tail(raw), [csp EXCEPT ![n] = Append(@, csp[n][1])])
             ELSE IF c.letter = "C"
             THEN ToSuperpath(Tail(raw),
                      [csp EXCEPT ![n] = Append([@ EXCEPT ![Len(@)] = CspNode(last.in, last.pt, c.c1)],
                                                CspNode(c.c2, c.pt, c.pt))])
             ELSE ToSuperpath(Tail(raw), [csp EXCEPT ![n] = Append(@, CspNode(c.pt, c.pt, c.pt))])

\* CubicSuperPath(new).to_path(curves_only=True): a move to the first node of
\* each subpath and a curve to each of the others
ToPath(csp) ==
    Flatten([k \in 1..Len(csp) |->
               [i \in 1..Len(csp[k]) |->
                   IF i = 1 THEN Cmd("M", csp[k][1].pt)
                   ELSE Curve(csp[k][i - 1].out, csp[k][i].in, csp[k][i].pt)]])

\* a loop that takes the subpaths as they are
SubPathsInOrder(sub) == sub

\* new: sub[-1-i] for i = 0 .. len(sub) - 1
ReversedSubPaths(sub) == [i \in 1..Len(sub) |-> sub[Len(sub) + 1 - i]]

\* the path effect gives an element
ReversedPath(raw) == ToPath(ReversedSubPaths(ToSuperpath(raw, <<>>)))

\* nothing is selected
ReverseAbortStep ==
    /\ pc = "reverse_order_subpaths"
    /\ outcome = Running
    /\ pathElements = <<>>
    /\ outcome' = Reported("AbortExtension", "selected")
    /\ UNCHANGED <<so, adjacencyPolicy, pathElements, docPaths, pc, pathIndex, subSplitLineArray,
                   selfIsects, selfIntersectingPaths, globalIntersectionPoints, subSplitIndex,
                   allTrimGroups, deleted, msgs>>
    /\ UNCHANGED otherVars

\* one turn of `for id, elem in self.svg.selection.id_dict().items()`
ReverseSubpathsStep ==
    /\ pc = "reverse_order_subpaths"
    /\ outcome = Running
    /\ pathIndex <= Len(pathElements)
    /\ pathElements' = [pathElements EXCEPT ![pathIndex].d = ReversedPath(@)]
    /\ pathIndex' = pathIndex + 1
    /\ outcome' = IF pathIndex = Len(pathElements) THEN Finished ELSE Running
    /\ UNCHANGED <<so, adjacencyPolicy, docPaths, pc, subSplitLineArray, selfIsects,
                   selfIntersectingPaths, globalIntersectionPoints, subSplitIndex,
                   allTrimGroups, deleted, msgs>>
    /\ UNCHANGED otherVars

\* the extension is run again on the same selection
ReverseAgainStep ==
    /\ pc = "reverse_order_subpaths"
    /\ outcome = Finished
    /\ pathIndex' = 1
    /\ outcome' = Running
    /\ UNCHANGED <<so, adjacencyPolicy, pathElements, docPaths, pc, subSplitLineArray, selfIsects,
                   selfIntersectingPaths, globalIntersectionPoints, subSplitIndex,
                   allTrimGroups, deleted, msgs>>
    /\ UNCHANGED otherVars

\* the subpaths of the selected paths: an open line, a triangle closed by Z and
\* a curve
ReverseSubPathKinds ==
    { PolyLine(<< <<0, 1>>, <<2, 1>> >>),
      Append(PolyLine(<< <<0, 0>>, <<2, 0>>, <<2, 2>> >>), Cmd("Z", <<>>)),
      <<Cmd("M", <<0, 0>>), Curve(<<0, 1>>, <<1, 2>>, <<2, 2>>)>> }

InitReverse ==
    /\ \E n \in 0..2 :
          \E paths \in [1..n -> SeqsOf(ReverseSubPathKinds, 1, MaxReversed)] :
              pathElements = [i \in 1..n |-> PathElement(PathIds[i], Flatten(paths[i]), 0, 0)]
    /\ so = DefaultOptions
    /\ adjacencyPolicy = TRUE
    /\ docPaths = {pathElements[i].id : i \in 1..Len(pathElements)}
    /\ pc = "reverse_order_subpaths"
    /\ pathIndex = 1
    /\ subSplitLineArray = <<>>
    /\ selfIsects = {}
    /\ selfIntersectingPaths = {}
    /\ globalIntersectionPoints = <<>>
    /\ subSplitIndex = 1
    /\ allTrimGroups = <<>>
    /\ deleted = {}
    /\ msgs = {}
    /\ outcome = Running
    /\ NoOtherRun

NextReverse == ReverseAbortStep \/ ReverseSubpathsStep \/ ReverseAgainStep

SpecReverse == InitReverse /\ [][NextReverse]_vars

\* C24: effect reverses the order of the subpaths of each selected path and
\* nothing else: a turn of its loop gives the element it is at the subpaths of
\* before in reverse order, each with its nodes as they were, leaves the other
\* elements and the order of the elements alone, and effect on the result gives
\* the subpaths of before again
C24_ReversesTheOrderOfSubPathsOnly ==
    [][pc = "reverse_order_subpaths" /\ pathIndex' = pathIndex + 1 =>
        /\ [i \in 1..Len(pathElements') |-> pathElements'[i].id]
             = [i \in 1..Len(pathElements) |-> pathElements[i].id]
        /\ \A i \in 1..Len(pathElements) :
              i # pathIndex => pathElements'[i] = pathElements[i]
        /\ LET old == ToSuperpath(pathElements[pathIndex].d, <<>>)
               new == ToSuperpath(pathElements'[pathIndex].d, <<>>)
           IN  /\ Len(new) = Len(old)
               /\ \A j \in 1..Len(old) : new[j] = old[Len(old) + 1 - j]
               /\ ToSuperpath(ReversedPath(pathElements'[pathIndex].d), <<>>) = old]_vars

\* effect has reversed a path of three subpaths, the first other than the last
C24_Witness ==
    /\ pc = "reverse_order_subpaths"
    /\ pathIndex = 2
    /\ LET new == ToSuperpath(pathElements[1].d, <<>>)
       IN  /\ Len(new) = MaxReversed
           /\ new[1] # new[MaxReversed]
           /\ Len(new[1]) = 4
    /\ \A j \in 1..Len(pathElements[1].d) : pathElements[1].d[j].letter \in {"M", "C"}

----------------------------------------------------------------------------
(* unwind_paths.py: UnwindPaths.effect *)

\* str(idSuffix).zfill(5)
IdSuffixes == <<"00000", "00001", "00002">>

\* breakContours of a path element without children: each of its subpaths as an
\* element of its own when there are two or more, the element itself when not
UnwindBreakContours(element) ==
    LET subPaths == SubPathsOf(element.d)
    IN  IF Len(subPaths) > 1
        THEN [k \in 1..Len(subPaths) |->
                [element EXCEPT !.id = @ \o <<IdSuffixes[k]>>, !.d = subPaths[k]]]
        ELSE <<element>>

\* the document after breakContours of the element
DocAfterBreakContours(element, doc) ==
    IF Len(SubPathsOf(element.d)) > 1
    THEN (doc \ {element.id})
            \cup {UnwindBreakContours(element)[k].id : k \in 1..Len(UnwindBreakContours(element))}
    ELSE doc

UnwindGroupId(element) == <<"unwinding-">> \o element.id

\* `len(self.svg.selected) > 0` is false
UnwindNothingSelectedStep ==
    /\ pc = "break"
    /\ outcome = Running
    /\ pathElements = <<>>
    /\ msgs' = msgs \cup {"Please select some paths first."}
    /\ outcome' = Finished
    /\ pc' = "done"
    /\ UNCHANGED <<so, adjacencyPolicy, pathElements, docPaths, pathIndex, subSplitLineArray,
                   selfIsects, selfIntersectingPaths, globalIntersectionPoints, subSplitIndex,
                   allTrimGroups, deleted, breakApartPaths, elemGroups, to_sort>>

\* one turn of `for element in self.svg.selection.filter(inkex.PathElement).values()`
UnwindBreakStep ==
    /\ pc = "break"
    /\ outcome = Running
    /\ pathIndex <= Len(pathElements)
    /\ breakApartPaths' = UnwindBreakContours(pathElements[pathIndex])
    /\ docPaths' = DocAfterBreakContours(pathElements[pathIndex], docPaths)
    /\ IF pathIndex = Len(pathElements)
       THEN pc' = "unwind" /\ pathIndex' = 1
       ELSE pc' = pc /\ pathIndex' = pathIndex + 1
    /\ UNCHANGED <<so, adjacencyPolicy, pathElements, subSplitLineArray, selfIsects,
                   selfIntersectingPaths, globalIntersectionPoints, subSplitIndex,
                   allTrimGroups, deleted, msgs, outcome, elemGroups, to_sort>>

\* one turn of `for element in breakApartPaths`: the group of the element is
\* added to the layer, and the element deleted unless keep_original is set
UnwindElementStep ==
    /\ pc = "unwind"
    /\ outcome = Running
    /\ pathIndex <= Len(breakApartPaths)
    /\ elemGroups' = Append(elemGroups, UnwindGroupId(breakApartPaths[pathIndex]))
    /\ docPaths' = IF so.keep_original THEN docPaths
                   ELSE docPaths \ {breakApartPaths[pathIndex].id}
    /\ pathIndex' = pathIndex + 1
    /\ IF pathIndex = Len(breakApartPaths)
       THEN pc' = "done" /\ outcome' = Finished
       ELSE pc' = pc /\ outcome' = outcome
    /\ UNCHANGED <<so, adjacencyPolicy, pathElements, subSplitLineArray, selfIsects,
                   selfIntersectingPaths, globalIntersectionPoints, subSplitIndex,
                   allTrimGroups, deleted, msgs, breakApartPaths, to_sort>>

\* the options of unwind_paths that decide about elements and groups; colorize
\* sets break_apart
UnwindOptions ==
    {[keep_original |-> k, break_apart |-> b \/ c, colorize |-> c, extrude |-> e] :
        k \in BOOLEAN, b \in BOOLEAN, c \in BOOLEAN, e \in BOOLEAN}

\* the selected paths: an open line, a closed triangle, and paths of two and of
\* three subpaths
UnwindShapes ==
    { PolyLine(<< <<0, 1>>, <<2, 1>> >>),
      Append(PolyLine(<< <<0, 0>>, <<2, 0>>, <<2, 2>> >>), Cmd("Z", <<>>)),
      PolyLine(<< <<0, 1>>, <<2, 1>> >>) \o PolyLine(<< <<1, 0>>, <<1, 2>> >>),
      PolyLine(<< <<0, 1>>, <<2, 1>> >>) \o PolyLine(<< <<1, 0>>, <<1, 2>> >>)
          \o PolyLine(<< <<0, 0>>, <<2, 2>> >>) }

InitUnwind ==
    /\ \E n \in 0..MaxPaths :
          \E shapes \in [1..n -> UnwindShapes] :
              pathElements = [i \in 1..n |-> PathElement(PathIds[i], shapes[i], 0, 0)]
    /\ so \in UnwindOptions
    /\ adjacencyPolicy = TRUE
    /\ docPaths = {pathElements[i].id : i \in 1..Len(pathElements)}
    /\ pc = "break"
    /\ pathIndex = 1
    /\ subSplitLineArray = <<>>
    /\ selfIsects = {}
    /\ selfIntersectingPaths = {}
    /\ globalIntersectionPoints = <<>>
    /\ subSplitIndex = 1
    /\ allTrimGroups = <<>>
    /\ deleted = {}
    /\ msgs = {}
    /\ outcome = Running
    /\ NoOtherRun

NextUnwind == UnwindNothingSelectedStep \/ UnwindBreakStep \/ UnwindElementStep

SpecUnwind == InitUnwind /\ [][NextUnwind]_vars

\* C25: effect makes an unwound output for each selected path element: when it
\* has finished, every subpath of every selected element, broken apart, has its
\* unwinding group
C25_EverySelectedPathIsUnwound ==
    pc = "done" /\ outcome = Finished =>
        \A i \in 1..Len(pathElements) :
            \A k \in 1..Len(UnwindBreakContours(pathElements[i])) :
                InList(UnwindGroupId(UnwindBreakContours(pathElements[i])[k]), elemGroups)

----------------------------------------------------------------------------
(* filter_by_length_area.py: FilterByLengthArea.effect *)

\* the length of a segment; the paths here have horizontal and vertical
\* segments only
SegLength(a, b) ==
    (IF a[1] < b[1] THEN b[1] - a[1] ELSE a[1] - b[1])
        + (IF a[2] < b[2] THEN b[2] - a[2] ELSE a[2] - b[2])

RECURSIVE NodesLength(_)
NodesLength(nodes) ==
    IF Len(nodes) < 2 THEN 0
    ELSE SegLength(nodes[1], nodes[2]) + NodesLength(Tail(nodes))

\* csplength(csp): stotal, the length of all subpaths
RECURSIVE CspLength(_)
CspLength(subPaths) ==
    IF subPaths = <<>> THEN 0
    ELSE NodesLength(CspNodes(Head(subPaths), <<>>)) + CspLength(Tail(subPaths))

\* the index before i in a list of n, counted round as sp[x - 1] is
IndexBefore(i, n) == IF i = 1 THEN n ELSE i - 1

\* twice the sum csparea makes over the nodes of a subpath:
\* 0.5 * sp[x - 1][1][0] * (coord[1][1] - sp[x - 2][1][1])
RECURSIVE NodesArea2(_, _)
NodesArea2(sp, x) ==
    IF x > Len(sp) THEN 0
    ELSE sp[IndexBefore(x, Len(sp))][1]
            * (sp[x][2] - sp[IndexBefore(IndexBefore(x, Len(sp)), Len(sp))][2])
         + NodesArea2(sp, x + 1)

\* twice csparea(csp); a subpath of fewer than two nodes is skipped
RECURSIVE CspArea2(_)
CspArea2(subPaths) ==
    IF subPaths = <<>> THEN 0
    ELSE (IF Len(CspNodes(Head(subPaths), <<>>)) < 2 THEN 0
          ELSE NodesArea2(CspNodes(Head(subPaths), <<>>), 1))
         + CspArea2(Tail(subPaths))

\* what effect measures of an element: twice its area (-csparea), its length
\* and the number of its commands
MeasuresOf(element) ==
    [area2  |-> 0 - CspArea2(SubPathsOf(element.d)),
     stotal |-> CspLength(SubPathsOf(element.d)),
     nodes  |-> Len(element.d)]

\* the division of the nodes measure raises, and `except Exception: pass`
\* drops the element
NodesMeasureRaises(element, options) ==
    /\ options.min_filter_enable \/ options.max_filter_enable
    /\ MeasuresOf(element).stotal = 0 \/ options.nodes_interval = 0

\* the element is appended to to_sort; unit_factor is 1. nodes / stotal is
\* compared with min_nodes / nodes_interval and with max_nodes / nodes_interval
FilterSelects(element, options) ==
    LET m == MeasuresOf(element)
        none == ~options.min_filter_enable /\ ~options.max_filter_enable
    IN  IF options.measure = "area"
        THEN \/ options.min_filter_enable /\ m.area2 < 2 * options.min_threshold
             \/ options.max_filter_enable /\ m.area2 >= 2 * options.max_threshold
             \/ none
        ELSE IF options.measure = "length"
        THEN \/ options.min_filter_enable /\ m.stotal < options.min_threshold
             \/ options.max_filter_enable /\ m.stotal >= options.max_threshold
             \/ none
        ELSE IF options.measure = "nodes"
        THEN /\ ~NodesMeasureRaises(element, options)
             /\ \/ options.min_filter_enable
                     /\ m.nodes * options.nodes_interval < options.min_nodes * m.stotal
                \/ options.max_filter_enable
                     /\ m.nodes * options.nodes_interval < options.max_nodes * m.stotal
                \/ none
        ELSE FALSE

\* the value effect stores with a selected element
FilterValue(element, options) ==
    IF options.measure = "area" THEN MeasuresOf(element).area2
    ELSE IF options.measure = "length" THEN MeasuresOf(element).stotal
    ELSE MeasuresOf(element).nodes

\* effect with a threshold of zero: it says so and returns
FilterZeroThresholdStep ==
    /\ pc = "filter_by_length_area"
    /\ outcome = Running
    /\ so.min_threshold = 0 \/ so.max_threshold = 0
    /\ msgs' = msgs \cup {"One or both tresholds are zero. Please adjust."}
    /\ outcome' = Finished
    /\ pc' = "done"
    /\ UNCHANGED <<so, adjacencyPolicy, pathElements, docPaths, pathIndex, subSplitLineArray,
                   selfIsects, selfIntersectingPaths, globalIntersectionPoints, subSplitIndex,
                   allTrimGroups, deleted, breakApartPaths, elemGroups, to_sort>>

\* effect: the elements are measured and the selected ones collected in to_sort,
\* and deleted with the delete option; sorting, renaming, colours, labels and
\* grouping are at their defaults, off
FilterByLengthAreaStep ==
    /\ pc = "filter_by_length_area"
    /\ outcome = Running
    /\ so.min_threshold # 0 /\ so.max_threshold # 0
    /\ LET Selected(element) == FilterSelects(element, so)
           selected == SelectSeq(pathElements, Selected)
       IN  /\ to_sort' = [i \in 1..Len(selected) |->
                            [element |-> selected[i].id,
                             value |-> FilterValue(selected[i], so),
                             type |-> so.measure]]
           /\ docPaths' = IF so.delete
                          THEN docPaths \ {selected[i].id : i \in 1..Len(selected)}
                          ELSE docPaths
    /\ outcome' = Finished
    /\ pc' = "done"
    /\ UNCHANGED <<so, adjacencyPolicy, pathElements, pathIndex, subSplitLineArray,
                   selfIsects, selfIntersectingPaths, globalIntersectionPoints, subSplitIndex,
                   allTrimGroups, deleted, msgs, breakApartPaths, elemGroups>>

\* thresholds: zero, and values at and between the lengths and areas of the paths
FilterThresholds == {0, 2, 4, 8}

FilterOptions ==
    {[min_filter_enable |-> f[1], max_filter_enable |-> f[2], delete |-> f[3],
      min_threshold |-> t[1], max_threshold |-> t[2],
      min_nodes |-> n[1] - 1, max_nodes |-> n[2], nodes_interval |-> n[3],
      measure |-> m] :
        f \in [1..3 -> BOOLEAN], t \in [1..2 -> FilterThresholds], n \in [1..3 -> 1..2],
        m \in {"area", "length", "nodes"}}

\* the paths: a line, an angle, a square drawn in either direction, a lone move
MeasuredShapes ==
    { PolyLine(<< <<0, 1>>, <<2, 1>> >>),
      PolyLine(<< <<0, 1>>, <<2, 1>>, <<2, 2>> >>),
      PolyLine(<< <<0, 0>>, <<2, 0>>, <<2, 2>>, <<0, 2>>, <<0, 0>> >>),
      PolyLine(<< <<0, 0>>, <<0, 2>>, <<2, 2>>, <<2, 0>>, <<0, 0>> >>),
      PolyLine(<< <<1, 1>> >>) }

InitMeasure ==
    /\ \E n \in 1..2 :
          \E shapes \in [1..n -> MeasuredShapes] :
              pathElements = [i \in 1..n |-> PathElement(PathIds[i], shapes[i], 0, 0)]
    /\ so \in FilterOptions
    /\ adjacencyPolicy = TRUE
    /\ docPaths = {pathElements[i].id : i \in 1..Len(pathElements)}
    /\ pc = "filter_by_length_area"
    /\ pathIndex = 1
    /\ subSplitLineArray = <<>>
    /\ selfIsects = {}
    /\ selfIntersectingPaths = {}
    /\ globalIntersectionPoints = <<>>
    /\ subSplitIndex = 1
    /\ allTrimGroups = <<>>
    /\ deleted = {}
    /\ msgs = {}
    /\ outcome = Running
    /\ NoOtherRun

NextMeasure == FilterZeroThresholdStep \/ FilterByLengthAreaStep

SpecMeasure == InitMeasure /\ [][NextMeasure]_vars

\* the element is in to_sort
InToSort(element) == \E i \in 1..Len(to_sort) : to_sort[i].element = element.id

\* effect went through the elements with one of the two filters only
FilteredBy(min, max) ==
    /\ pc = "done"
    /\ so.min_threshold # 0 /\ so.max_threshold # 0
    /\ so.min_filter_enable = min
    /\ so.max_filter_enable = max

\* C26: the max filter selects the paths whose value is at or above the max
\* bound and the min filter those whose value is below the min bound, for each
\* of the three measures: with one of the filters only, a path of a length
\* above 0 is selected exactly when its area, its length or its nodes per
\* interval is on that side of the bound
C26_MaxFilterSelectsAtOrAboveTheBound ==
    \A i \in 1..Len(pathElements) :
        LET m == MeasuresOf(pathElements[i])
        IN  m.stotal > 0 =>
              /\ FilteredBy(FALSE, TRUE) =>
                    (InToSort(pathElements[i]) <=>
                        IF so.measure = "area" THEN m.area2 >= 2 * so.max_threshold
                        ELSE IF so.measure = "length" THEN m.stotal >= so.max_threshold
                        ELSE m.nodes * so.nodes_interval >= so.max_nodes * m.stotal)
              /\ FilteredBy(TRUE, FALSE) =>
                    (InToSort(pathElements[i]) <=>
                        IF so.measure = "area" THEN m.area2 < 2 * so.min_threshold
                        ELSE IF so.measure = "length" THEN m.stotal < so.min_threshold
                        ELSE m.nodes * so.nodes_interval < so.min_nodes * m.stotal)

====
